---- MODULE Spec2Model ----
(***************************************************************************)
(* Price Finder USA (webapp.py): the result-aggregation pipeline of        *)
(* PriceFinder -- price extraction, store denylist, fallback prices,       *)
(* normalisation of provider items, search_products and its cache.         *)
(*                                                                         *)
(* Conventions of the model                                                *)
(*   - a Python str is a sequence of one-character strings;                *)
(*   - a Python dict is a function whose DOMAIN is its set of keys; the    *)
(*     cache, whose iteration order matters (min returns the first of the  *)
(*     smallest), is the sequence of its entries in insertion order;       *)
(*   - a price is a whole number of cents (19.99 is 1999);                 *)
(*   - time.time() is the variable now, in seconds.                        *)
(***************************************************************************)
EXTENDS Integers, Sequences, FiniteSets, TLC

\* ------------------------------------------------------------------ str

UpperChars == <<"A","B","C","D","E","F","G","H","I","J","K","L","M",
                "N","O","P","Q","R","S","T","U","V","W","X","Y","Z">>
LowerChars == <<"a","b","c","d","e","f","g","h","i","j","k","l","m",
                "n","o","p","q","r","s","t","u","v","w","x","y","z">>
DigitChars == <<"0","1","2","3","4","5","6","7","8","9">>
SpaceChars == {" ", "\t", "\n"}

Range(s) == {s[i] : i \in DOMAIN s}

UpperSet == Range(UpperChars)
DigitSet == Range(DigitChars)

IsDigit(c) == c \in DigitSet

DigitValue == [c \in DigitSet |-> (CHOOSE i \in DOMAIN DigitChars : DigitChars[i] = c) - 1]

DigitVal(c) == DigitValue[c]

LowerOf == [c \in UpperSet |-> LowerChars[CHOOSE i \in DOMAIN UpperChars : UpperChars[i] = c]]

LowerChar(c) == IF c \in UpperSet THEN LowerOf[c] ELSE c

\* str.lower()
Lower(s) == [i \in DOMAIN s |-> LowerChar(s[i])]

\* s[:n]
Prefix(s, n) == SubSeq(s, 1, IF Len(s) < n THEN Len(s) ELSE n)

\* sub in s
Contains(s, sub) ==
  \E i \in 0..(Len(s) - Len(sub)) : \A j \in DOMAIN sub : s[i + j] = sub[j]

\* str.strip()
Strip(s) ==
  LET keep == {i \in DOMAIN s : s[i] \notin SpaceChars}
      Min(S) == CHOOSE x \in S : \A y \in S : x <= y
      Max(S) == CHOOSE x \in S : \A y \in S : y <= x
  IN  IF keep = {} THEN <<>> ELSE SubSeq(s, Min(keep), Max(keep))

\* "".join(ss[lo..hi]), by halves
RECURSIVE FlattenRange(_, _, _)
FlattenRange(ss, lo, hi) ==
  IF lo > hi THEN <<>>
  ELSE IF lo = hi THEN ss[lo]
  ELSE FlattenRange(ss, lo, (lo + hi) \div 2) \o FlattenRange(ss, (lo + hi) \div 2 + 1, hi)

\* "".join(ss)
Flatten(ss) == FlattenRange(ss, 1, Len(ss))

\* html.escape(s) (quote=True)
EscapeChar(c) ==
  CASE c = "&"  -> <<"&","a","m","p",";">>
    [] c = "<"  -> <<"&","l","t",";">>
    [] c = ">"  -> <<"&","g","t",";">>
    [] c = "\"" -> <<"&","q","u","o","t",";">>
    [] c = "'"  -> <<"&","#","x","2","7",";">>
    [] OTHER    -> <<c>>

EscapedChars == {"&", "<", ">", "\"", "'"}

html_escape(s) ==
  IF \A i \in DOMAIN s : s[i] \notin EscapedChars THEN s
  ELSE Flatten([i \in DOMAIN s |-> EscapeChar(s[i])])

\* urllib.parse.quote_plus on the characters of the model: letters, digits and
\* _ . - ~ are kept, a space becomes +, the rest is percent-encoded.
SafeChars == Range(UpperChars) \cup Range(LowerChars) \cup Range(DigitChars)
               \cup {"_", ".", "-", "~"}

QuoteChar(c) ==
  CASE c \in SafeChars -> <<c>>
    [] c = " "  -> <<"+">>
    [] c = "&"  -> <<"%","2","6">>
    [] c = "<"  -> <<"%","3","C">>
    [] c = ">"  -> <<"%","3","E">>
    [] c = "\"" -> <<"%","2","2">>
    [] c = "'"  -> <<"%","2","7">>
    [] c = "$"  -> <<"%","2","4">>
    [] c = ","  -> <<"%","2","C">>
    [] c = "\t" -> <<"%","0","9">>
    [] c = "\n" -> <<"%","0","A">>
    [] OTHER    -> <<"%","3","F">>

quote_plus(s) ==
  IF \A i \in DOMAIN s : s[i] \in SafeChars THEN s
  ELSE Flatten([i \in DOMAIN s |-> QuoteChar(s[i])])

\* the decimal digits of a natural number
RECURSIVE Digits(_)
Digits(n) ==
  IF n < 10 THEN <<DigitChars[n + 1]>>
            ELSE Digits(n \div 10) \o <<DigitChars[(n % 10) + 1]>>

\* f"${price:.2f}" of a price in cents
FormatPrice(cents) ==
  <<"$">> \o Digits(cents \div 100) \o <<".">>
          \o <<DigitChars[((cents % 100) \div 10) + 1], DigitChars[(cents % 10) + 1]>>

\* dict.get(k, default)
Get(d, k, default) == IF k \in DOMAIN d THEN d[k] ELSE default

\* ---------------------------------------------------------- PriceFinder

\* None, '' and {} : the code reads them only through "not x"
None == <<>>

\* self.cache_ttl
cache_ttl == 180

\* the cache may hold this many entries after a store (len(self.cache) > 10)
cache_max == 10

\* at most this many raw items are read (data[results_key][:3]) and at most
\* this many products are built (len(products) >= 3)
max_products == 3

\* all_products[:6]
max_final == 6

\* the price bounds of _extract_price, 0.01 and 50000, in cents
min_price == 1
max_price == 5000000

\* self.blacklisted_stores
blacklisted_stores ==
  << <<"a","l","i","b","a","b","a">>,
     <<"a","l","i","e","x","p","r","e","s","s">>,
     <<"t","e","m","u">>,
     <<"w","i","s","h">>,
     <<"b","a","n","g","g","o","o","d">>,
     <<"d","h","g","a","t","e">>,
     <<"f","a","l","a","b","e","l","l","a">>,
     <<"r","i","p","l","e","y">>,
     <<"l","i","n","i","o">>,
     <<"m","e","r","c","a","d","o","l","i","b","r","e">> >>

BlacklistSet == Range(blacklisted_stores)

CharAt(s, k) == IF k \in DOMAIN s THEN s[k] ELSE ""

DigitAt(s, k) == k \in DOMAIN s /\ IsDigit(s[k])

\* \s* from s[i] on: the first index that holds no whitespace
AfterSpaces(s, i) ==
  CHOOSE k \in i..(Len(s) + 1) :
    /\ \A m \in i..(k - 1) : s[m] \in SpaceChars
    /\ CharAt(s, k) \notin SpaceChars

\* \d{1,4} at s[j]: how many digits it takes (0: no match)
LeadLen(s, j) ==
  CHOOSE c \in 0..4 :
    /\ \A m \in 0..(c - 1) : DigitAt(s, j + m)
    /\ c = 4 \/ ~DigitAt(s, j + c)

\* ,\d{3} at s[k]
IsGroup(s, k) ==
  CharAt(s, k) = "," /\ DigitAt(s, k + 1) /\ DigitAt(s, k + 2) /\ DigitAt(s, k + 3)

\* (?:,\d{3})* at s[k]: how many groups it takes
GroupCount(s, k) ==
  CHOOSE g \in 0..Len(s) :
    /\ \A m \in 0..(g - 1) : IsGroup(s, k + 4 * m)
    /\ ~IsGroup(s, k + 4 * g)

\* (?:\.\d{2})? at s[e], group 1 having started at s[j]: the text of group 1
MatchFraction(s, j, e) ==
  IF CharAt(s, e) = "." /\ DigitAt(s, e + 1) /\ DigitAt(s, e + 2)
    THEN SubSeq(s, j, e + 2) ELSE SubSeq(s, j, e - 1)

\* (?:,\d{3})* at s[k], then the rest
MatchGroups(s, j, k) == MatchFraction(s, j, k + 4 * GroupCount(s, k))

\* \d{1,4} at s[j], then the rest
MatchDigits(s, j) ==
  IF DigitAt(s, j) THEN MatchGroups(s, j, j + LeadLen(s, j)) ELSE None

\* the text of group 1 of \$\s*(\d{1,4}(?:,\d{3})*(?:\.\d{2})?) matched at
\* s[i], None when the pattern does not match there. Every part after the
\* first digit is optional and greedy, so the match never backtracks.
MatchPriceAt(s, i) ==
  IF s[i] = "$" THEN MatchDigits(s, AfterSpaces(s, i + 1)) ELSE None

RECURSIVE DigitsValue(_)
DigitsValue(ds) ==
  IF ds = <<>> THEN 0
  ELSE DigitsValue(SubSeq(ds, 1, Len(ds) - 1)) * 10 + DigitVal(ds[Len(ds)])

\* float(text.replace(',', '')), in cents, of a text the pattern matched
ParsePrice(text) ==
  LET plain == SelectSeq(text, LAMBDA c : c # ",")
      dot   == {k \in DOMAIN plain : plain[k] = "."}
  IN  IF dot = {} THEN DigitsValue(plain) * 100
      ELSE DigitsValue(SubSeq(plain, 1, Len(plain) - 3)) * 100
           + DigitsValue(SubSeq(plain, Len(plain) - 1, Len(plain)))

MinOf(S) == CHOOSE x \in S : \A y \in S : x <= y

\* a bound check that forgets the upper limit
BoundedPriceNoCap(price_value) ==
  IF min_price <= price_value THEN price_value ELSE 0

\* price_value if 0.01 <= price_value <= 50000 else 0.0
BoundedPrice(price_value) ==
  IF min_price <= price_value /\ price_value <= max_price THEN price_value ELSE 0

\* a search that takes the rightmost of the places where the pattern matches
LastPrice(s, hits) ==
  IF hits = {} THEN 0
  ELSE BoundedPrice(ParsePrice(MatchPriceAt(s,
         CHOOSE x \in hits : \A y \in hits : x >= y)))

\* re.search takes the leftmost of the places where the pattern matches
FirstPrice(s, hits) ==
  IF hits = {} THEN 0 ELSE BoundedPrice(ParsePrice(MatchPriceAt(s, MinOf(hits))))

\* _extract_price
_extract_price(price_str) ==
  IF price_str = None THEN 0
  ELSE FirstPrice(price_str, {i \in DOMAIN price_str : MatchPriceAt(price_str, i) # None})

ContainsAny(s, words) == \E w \in words : Contains(s, w)

ElectronicsWords == {<<"p","h","o","n","e">>, <<"l","a","p","t","o","p">>}
ApparelWords == {<<"s","h","i","r","t">>, <<"s","h","o","e","s">>}

\* an estimate that looks for the apparel words first
_generate_realistic_price_apparel_first(query, index) ==
  LET query_lower == Lower(query)
      base_price ==
        IF ContainsAny(query_lower, ApparelWords) THEN 35
        ELSE IF ContainsAny(query_lower, ElectronicsWords) THEN 400
        ELSE 25
  IN  base_price * (100 + index * 15)

\* _generate_realistic_price: round(base_price * (1 + index * 0.15), 2), in cents
_generate_realistic_price(query, index) ==
  LET query_lower == Lower(query)
      base_price ==
        IF ContainsAny(query_lower, ElectronicsWords) THEN 400
        ELSE IF ContainsAny(query_lower, ApparelWords) THEN 35
        ELSE 25
  IN  base_price * (100 + index * 15)

\* _clean_text
_clean_text(text) ==
  IF text = None THEN <<"S","i","n"," ","i","n","f","o","r","m","a","c","i","o","n">>
  ELSE html_escape(Prefix(text, 120))

\* a store check that wants the whole store name to be a denylist entry
_is_blacklisted_store_exact(source) ==
  IF source = None THEN FALSE
  ELSE Lower(source) \in BlacklistSet

\* a store check that compares without lower-casing the store name
_is_blacklisted_store_cased(source) ==
  IF source = None THEN FALSE
  ELSE ContainsAny(source, BlacklistSet)

\* _is_blacklisted_store
_is_blacklisted_store(source) ==
  IF source = None THEN FALSE
  ELSE ContainsAny(Lower(source), BlacklistSet)

\* a link choice without the constructed search URL
_get_valid_link_as_given(item) ==
  IF item = None THEN <<"#">>
  ELSE IF "product_link" \in DOMAIN item THEN item["product_link"]
  ELSE IF "link" \in DOMAIN item THEN item["link"]
  ELSE <<>>

GoogleShop == <<"h","t","t","p","s",":","/","/","w","w","w",".","g","o","o","g","l","e",
                ".","c","o","m","/","s","e","a","r","c","h","?","t","b","m","=","s","h",
                "o","p","&","q","=">>

\* _get_valid_link
_get_valid_link(item) ==
  IF item = None THEN <<"#">>
  ELSE IF Get(item, "product_link", None) # None THEN item["product_link"]
  ELSE IF Get(item, "link", None) # None THEN item["link"]
  ELSE IF Get(item, "title", None) # None
    THEN GoogleShop \o quote_plus(Prefix(item["title"], 50))
  ELSE <<"#">>

\* dict update: d[k] = v
Put(d, k, v) == (k :> v) @@ d

\* products.append({...})
Product(item, title, price_str, price_num) ==
  [title         |-> _clean_text(title),
   price         |-> price_str,
   price_numeric |-> price_num,
   source        |-> _clean_text(Get(item, "source", <<"T","i","e","n","d","a">>)),
   link          |-> _get_valid_link(item),
   rating        |-> Get(item, "rating", None),
   reviews       |-> Get(item, "reviews", None),
   image         |-> None]

\* price_num = self._generate_realistic_price(title, len(products));
\* price_str = f"${price_num:.2f}"
FallbackProduct(item, title, price_num) ==
  Product(item, title, FormatPrice(price_num), price_num)

\* a fallback price that ignores how many listings were accepted
PricedProductAtZero(item, title, price_str, price_num, index) ==
  IF price_num = 0
    THEN FallbackProduct(item, title, _generate_realistic_price(title, 0))
    ELSE Product(item, title, price_str, price_num)

\* if price_num == 0: the fallback price, at index len(products)
PricedProduct(item, title, price_str, price_num, index) ==
  IF price_num = 0
    THEN FallbackProduct(item, title, _generate_realistic_price(title, index))
    ELSE Product(item, title, price_str, price_num)

\* a loop body that puts the new product in front of the list
ProcessTitleFront(item, title, products) ==
  IF title = None \/ Len(title) < 3 THEN products
  ELSE <<PricedProduct(item, title, Get(item, "price", None),
                       _extract_price(Get(item, "price", None)), Len(products))>>
       \o products

\* a loop body that takes every title, absent or short
ProcessTitleUnchecked(item, title, products) ==
  Append(products,
         PricedProduct(item, title, Get(item, "price", None),
                       _extract_price(Get(item, "price", None)), Len(products)))

\* the title check and the rest of the loop body
ProcessTitle(item, title, products) ==
  IF title = None \/ Len(title) < 3 THEN products
  ELSE Append(products,
         PricedProduct(item, title, Get(item, "price", None),
                       _extract_price(Get(item, "price", None)), Len(products)))

\* a raw item is a JSON object, or a JSON string written [json_string |-> s]
IsDict(item) == "json_string" \notin DOMAIN item

\* one pass of the loop body of _process_results over item, products so far
\* given: the item is skipped (continue) or a product is appended; on a raw
\* item that is no object item.get raises AttributeError, which the except of
\* the loop body turns into a continue
ProcessItem(item, products) ==
  IF item = None THEN products
  ELSE IF ~IsDict(item) THEN products
  ELSE IF _is_blacklisted_store(Get(item, "source", None)) THEN products
  ELSE ProcessTitle(item, Get(item, "title", None), products)

RECURSIVE ProcessLoop(_, _)

\* if len(products) >= 3: break, after an append
LoopStep(items, products, next) ==
  IF Len(next) > Len(products) /\ Len(next) >= max_products
    THEN next
    ELSE ProcessLoop(Tail(items), next)

\* for item in items: ...
ProcessLoop(items, products) ==
  IF items = <<>> THEN products
  ELSE LoopStep(items, products, ProcessItem(Head(items), products))

\* a JSON object standing where the list of results should be: a mapping
\* whose keys are not the positions 1..n of a list
NotAList == (0 :> <<"n","o">>)

\* the JSON values of the model that are no lists
NonListValues == {NotAList}

\* data[results_key][:3], outside the try of the loop body, raises TypeError
\* on a value that cannot be sliced
ProcessRaises(data) ==
  /\ data # None
  /\ "shopping_results" \in DOMAIN data
  /\ data["shopping_results"] \in NonListValues

\* _process_results(data, 'google_shopping'), where it returns
_process_results(data) ==
  IF data = None THEN <<>>
  ELSE IF "shopping_results" \notin DOMAIN data THEN <<>>
  ELSE ProcessLoop(Prefix(data["shopping_results"], max_products), <<>>)

ExampleStores == << <<"A","m","a","z","o","n">>, <<"W","a","l","m","a","r","t">>,
                    <<"T","a","r","g","e","t">> >>
ExampleLabels == << <<"M","e","j","o","r"," ","P","r","e","c","i","o">>,
                    <<"O","f","e","r","t","a">>, <<"P","o","p","u","l","a","r">> >>
ExampleLinks ==
  << <<"h","t","t","p","s",":","/","/","w","w","w",".","a","m","a","z","o","n",".","c",
       "o","m","/","s","?","k","=">>,
     <<"h","t","t","p","s",":","/","/","w","w","w",".","w","a","l","m","a","r","t",".",
       "c","o","m","/","s","e","a","r","c","h","?","q","=">>,
     <<"h","t","t","p","s",":","/","/","w","w","w",".","t","a","r","g","e","t",".","c",
       "o","m","/","s","?","s","e","a","r","c","h","T","e","r","m","=">> >>
ExampleRatings == << <<"4",".","5">>, <<"4",".","2">>, <<"4",".","0">> >>
ExampleReviews == << <<"5","0","0">>, <<"3","0","0">>, <<"2","0","0">> >>

\* an example set whose prices start at index 1
_get_examples_from_one(query) ==
  [i \in 1..3 |->
     [title         |-> _clean_text(query) \o <<" ","-"," ">> \o ExampleLabels[i],
      price         |-> FormatPrice(_generate_realistic_price(query, i)),
      price_numeric |-> _generate_realistic_price(query, i),
      source        |-> ExampleStores[i],
      link          |-> ExampleLinks[i] \o quote_plus(Prefix(query, 30)),
      rating        |-> ExampleRatings[i],
      reviews       |-> ExampleReviews[i],
      image         |-> None,
      search_source |-> "example"]]

\* _get_examples
_get_examples(query) ==
  [i \in 1..3 |->
     [title         |-> _clean_text(query) \o <<" ","-"," ">> \o ExampleLabels[i],
      price         |-> FormatPrice(_generate_realistic_price(query, i - 1)),
      price_numeric |-> _generate_realistic_price(query, i - 1),
      source        |-> ExampleStores[i],
      link          |-> ExampleLinks[i] \o quote_plus(Prefix(query, 30)),
      rating        |-> ExampleRatings[i],
      reviews       |-> ExampleReviews[i],
      image         |-> None,
      search_source |-> "example"]]

\* list.sort(key=lambda x: x['price_numeric']): stable, ascending
RECURSIVE InsertSorted(_, _)
InsertSorted(sorted, x) ==
  IF sorted = <<>> THEN <<x>>
  ELSE IF x.price_numeric < Head(sorted).price_numeric THEN <<x>> \o sorted
  ELSE <<Head(sorted)>> \o InsertSorted(Tail(sorted), x)

RECURSIVE SortByPrice(_)
SortByPrice(products) ==
  IF products = <<>> THEN <<>>
  ELSE InsertSorted(SortByPrice(SubSeq(products, 1, Len(products) - 1)),
                    products[Len(products)])

\* ----------------------------------------------------------------- state

VARIABLES
  api_key,    \* self.api_key is set (a provider credential is configured)
  vision,     \* GEMINI_READY and PIL_AVAILABLE
  hash,       \* the process's str hash, on the lower-cased queries
  cache,      \* self.cache, in insertion order: <<[key, data, timestamp], ...>>
  now,        \* time.time()
  requests,   \* provider requests issued so far
  last,       \* what the latest search_products call was given and returned
  watch,      \* the latest call whose resolved query was the watched one
  th,         \* the calls in flight, when calls run as threads
  raw,        \* the raw response handed to _process_results on its own
  products,   \* and what it emitted
  applied,    \* the helper function applied on its own, its argument and value
  used,       \* how many queries of the cache-capacity workload were searched
  session,    \* the logged-in user's Flask session: its 'last_search'
  reply       \* the latest api_search request and the response it was given

vars == <<api_key, vision, hash, cache, now, requests, last, watch, th, raw, products,
          applied, used, session, reply>>

\* the whole seconds a provider request is taken to last: time.sleep(0.3), then
\* requests.get; the clock never reads the same before and after one
request_time == 1

\* the bytes of an image api_search accepts (10 * 1024 * 1024), and the
\* characters of a query it keeps
max_image_bytes == 10485760
max_query == 80

Producto == <<"p","r","o","d","u","c","t","o">>

\* an absent image (image_content is None or empty)
NoImage == [present |-> FALSE, valid |-> FALSE, description |-> None]

\* the query resolution of search_products: image.valid is validate_image's
\* answer, image.description analyze_image_with_gemini's (None when it fails)
ResolveQuery(query, image) ==
  IF image.present /\ vision THEN
    IF image.valid THEN
      IF query # None THEN
        IF image.description # None
          THEN [final_query   |-> query \o <<" ">> \o image.description,
                search_source |-> "combined"]
          ELSE [final_query |-> query, search_source |-> "text_fallback"]
      ELSE [final_query |-> image.description, search_source |-> "image"]
    ELSE [final_query   |-> IF query # None THEN query ELSE Producto,
          search_source |-> "text"]
  ELSE [final_query   |-> IF query # None THEN query ELSE Producto,
        search_source |-> "text"]

\* cache_key = f"search_{hash(final_query.lower())}"
CacheKey(final_query) == <<"search_", hash[Lower(final_query)]>>

CacheKeys(c) == {c[i].key : i \in DOMAIN c}

\* self.cache[key], for a key in the cache
CacheEntry(c, key) == c[CHOOSE i \in DOMAIN c : c[i].key = key]

\* a freshness test that ends an entry's life one second early
IsFreshShort(timestamp, t) == (t - timestamp) < cache_ttl - 1

\* a freshness test that still serves an entry of age cache_ttl
IsFreshLong(timestamp, t) == (t - timestamp) <= cache_ttl

\* (time.time() - timestamp) < self.cache_ttl
IsFresh(timestamp, t) == (t - timestamp) < cache_ttl

\* self.cache[key] = (data, t): a key already there keeps its place
CachePut(c, key, data, t) ==
  IF key \in CacheKeys(c)
    THEN [i \in DOMAIN c |->
            IF c[i].key = key THEN [key |-> key, data |-> data, timestamp |-> t]
                              ELSE c[i]]
    ELSE Append(c, [key |-> key, data |-> data, timestamp |-> t])

\* an eviction choice that takes the first key in iteration order
OldestKeyFirstInserted(c) == c[1].key

\* min(self.cache.keys(), key=lambda k: self.cache[k][1]): the first, in
\* iteration order, of the entries with the smallest timestamp
OldestKey(c) ==
  LET i == CHOOSE i \in DOMAIN c :
             /\ \A j \in DOMAIN c : c[i].timestamp <= c[j].timestamp
             /\ \A j \in 1..(i - 1) : c[j].timestamp > c[i].timestamp
  IN  c[i].key

\* del self.cache[key]
CacheDel(c, key) ==
  LET i == CHOOSE i \in DOMAIN c : c[i].key = key
  IN  SubSeq(c, 1, i - 1) \o SubSeq(c, i + 1, Len(c))

\* an eviction that starts one entry too late
EvictLate(c) == IF Len(c) > cache_max + 1 THEN CacheDel(c, OldestKey(c)) ELSE c

\* if len(self.cache) > 10: del self.cache[oldest_key]
Evict(c) == IF Len(c) > cache_max THEN CacheDel(c, OldestKey(c)) ELSE c

\* _make_api_request: None without a key, on a status other than 200 and on
\* an exception of the request; the decoded body otherwise
_make_api_request(response) ==
  IF ~api_key THEN None
  ELSE IF response.ok THEN response.json ELSE None

\* a ranking that truncates without sorting
RankUnsorted(all_products) == Prefix(all_products, max_final)

\* all_products.sort(...); final_products = all_products[:6]
Rank(all_products) == Prefix(SortByPrice(all_products), max_final)

\* product['search_source'] = ...; product['original_query'] = ...
AddMetadata(final_products, search_source, query) ==
  [i \in DOMAIN final_products |->
     Put(Put(final_products[i], "search_source", search_source),
         "original_query", IF query # None THEN query ELSE <<"i","m","a","g","e","n">>)]

\* CacheStore: self.cache[cache_key] = (final_products, time.time()), then the
\* eviction; the request has taken request_time
CacheStore(c, t, cache_key, final_products) ==
  [path |-> "miss", result |-> final_products,
   cache |-> Evict(CachePut(c, cache_key, final_products, t + request_time)),
   now |-> t + request_time, requests |-> 1]

\* a ranking without the substitution of the examples
RankedAsFound(query, search_source, final_query, found) ==
  AddMetadata(Rank(found), search_source, query)

\* if not all_products: the examples; then sort, truncate, metadata
Ranked(query, search_source, final_query, found) ==
  AddMetadata(Rank(IF found = <<>> THEN _get_examples(final_query) ELSE found),
              search_source, query)

\* a store that keeps only what the provider found: the substituted examples
\* are returned and not cached
RankAndStoreFound(c, t, query, search_source, final_query, cache_key, found) ==
  IF found = <<>>
    THEN [path |-> "miss", result |-> Ranked(query, search_source, final_query, found),
          cache |-> c, now |-> t + request_time, requests |-> 1]
    ELSE CacheStore(c, t, cache_key, Ranked(query, search_source, final_query, found))

\* the rest of a call after the provider request, through the store
RankAndStore(c, t, query, search_source, final_query, cache_key, found) ==
  CacheStore(c, t, cache_key, Ranked(query, search_source, final_query, found))

\* a lookup that never finds a fresh entry: every call asks the provider
CacheCheckAlwaysFetch(c, t, query, search_source, final_query, cache_key, response) ==
  RankAndStore(c, t, query, search_source, final_query, cache_key,
               IF ProcessRaises(_make_api_request(response)) THEN <<>>
               ELSE _process_results(_make_api_request(response)))

\* a lookup that stamps the entry it serves with the time of the read
CacheCheckRefresh(c, t, query, search_source, final_query, cache_key, response) ==
  IF cache_key \in CacheKeys(c) /\ IsFresh(CacheEntry(c, cache_key).timestamp, t)
    THEN [path |-> "hit", result |-> CacheEntry(c, cache_key).data,
          cache |-> CachePut(c, cache_key, CacheEntry(c, cache_key).data, t),
          now |-> t, requests |-> 0]
    ELSE IF ProcessRaises(_make_api_request(response))
      THEN [path |-> "raised", result |-> <<>>, cache |-> c,
            now |-> t + request_time, requests |-> 1]
    ELSE RankAndStore(c, t, query, search_source, final_query, cache_key,
                      _process_results(_make_api_request(response)))

\* CacheCheck: a fresh entry is returned as it is; on a miss the one provider
\* request is made and its results are processed; an exception of
\* _process_results leaves search_products, which has no try of its own
CacheCheck(c, t, query, search_source, final_query, cache_key, response) ==
  IF cache_key \in CacheKeys(c) /\ IsFresh(CacheEntry(c, cache_key).timestamp, t)
    THEN [path |-> "hit", result |-> CacheEntry(c, cache_key).data,
          cache |-> c, now |-> t, requests |-> 0]
    ELSE IF ProcessRaises(_make_api_request(response))
      THEN [path |-> "raised", result |-> <<>>, cache |-> c,
            now |-> t + request_time, requests |-> 1]
    ELSE RankAndStore(c, t, query, search_source, final_query, cache_key,
                      _process_results(_make_api_request(response)))

\* a call that goes to the cache and the provider without a credential
WithQueryKeyless(c, t, query, search_source, final_query, response) ==
  CacheCheck(c, t, query, search_source, final_query, CacheKey(final_query), response)

\* if not self.api_key: the examples of the query
WithQuery(c, t, query, search_source, final_query, response) ==
  IF ~api_key
    THEN [path |-> "nokey", result |-> _get_examples(final_query),
          cache |-> c, now |-> t, requests |-> 0]
    ELSE CacheCheck(c, t, query, search_source, final_query,
                    CacheKey(final_query), response)

\* if not final_query or len(final_query.strip()) < 2: the examples of "producto"
WithResolved(c, t, query, resolved, response) ==
  IF resolved.final_query = None \/ Len(Strip(resolved.final_query)) < 2
    THEN [path |-> "short", result |-> _get_examples(Producto),
          cache |-> c, now |-> t, requests |-> 0]
    ELSE WithQuery(c, t, query, resolved.search_source,
                   Strip(resolved.final_query), response)

\* search_products(query, image_content) run to its return on cache c at time
\* t, the provider answering response: the list returned, the cache and the
\* clock it leaves, and the provider requests it issued. Its guard
\* time.time() - start_time < 8 follows start_time = time.time() at once and
\* is taken to hold.
search_products(c, t, query, image, response) ==
  WithResolved(c, t, query, ResolveQuery(query, image), response)

\* ------------------------------------------------------------- api_search

\* the request as api_search reads it: form.query is request.form.get('query')
\* (None when absent or empty); form.file says that request.files has an
\* 'image_file' with a filename; form.size is the length of what its read()
\* returns, form.image what validate_image and the vision model make of it
\*
\* query = request.form.get('query', '').strip() if request.form.get('query') else None
FormQuery(form) == IF form.query # None THEN Strip(form.query) ELSE None

\* image_content = image_file.read(); empty bytes are falsy in api_search and
\* in search_products alike
ImageContent(form) == IF form.file /\ form.size > 0 THEN form.image ELSE NoImage

\* if len(image_content) > 10 * 1024 * 1024
TooLarge(form) == form.file /\ form.size > max_image_bytes

\* if not query and not image_content
NoEntry(form) == FormQuery(form) = None /\ ~ImageContent(form).present

\* if query and len(query) > 80: query = query[:80]
Limited(query) == Prefix(query, max_query)

\* "imagen" if image_content and not query else "texto+imagen" if image_content
\* and query else "texto"
SearchType(query, content) ==
  IF content.present /\ query = None THEN "imagen"
  ELSE IF content.present THEN "texto+imagen" ELSE "texto"

\* jsonify({'success': False, 'error': error}), status
ErrorReply(form, status, error) ==
  [request |-> form, status |-> status, success |-> FALSE, products |-> <<>>,
   error |-> error]

\* jsonify({'success': True, 'products': products, 'total': len(products)})
SuccessReply(form, found) ==
  [request |-> form, status |-> 200, success |-> TRUE, products |-> found,
   error |-> ""]

\* query or "busqueda por imagen" (the source writes the u with its accent)
SearchLabel(query) ==
  IF query # None THEN query
  ELSE <<"b","u","s","q","u","e","d","a"," ","p","o","r"," ","i","m","a","g","e","n">>

\* the try block after search_products has returned found at time t:
\* session['last_search'] = {...} (its 'user' is the session's own
\* user_email and is left out), then the success response
OnReturn(form, query, content, found, t) ==
  [session |-> [last_search |-> [query |-> SearchLabel(query), products |-> found,
                                 timestamp |-> t,
                                 search_type |-> SearchType(query, content)]],
   reply |-> SuccessReply(form, found)]

\* the query of the except block: the form's text as sent, or 'producto'
FallbackQuery(form) == IF form.query # None THEN form.query ELSE Producto

\* an except block that reports the failure to the caller
OnExceptionError(form, t) ==
  [session |-> [last_search |-> [query |-> FallbackQuery(form),
                                 products |-> _get_examples(FallbackQuery(form)),
                                 timestamp |-> t, search_type |-> "none"]],
   reply |-> ErrorReply(form, 500, "Error interno del servidor")]

\* except Exception: the examples of the fallback query go to the session
\* (this 'last_search' has no 'search_type') and to the caller, as a success;
\* _get_examples of a str raises nothing, so the inner except is never entered
OnException(form, t) ==
  [session |-> [last_search |-> [query |-> FallbackQuery(form),
                                 products |-> _get_examples(FallbackQuery(form)),
                                 timestamp |-> t, search_type |-> "none"]],
   reply |-> SuccessReply(form, _get_examples(FallbackQuery(form)))]

\* ---------------------------------------------------------------- bounds

\* provider requests per behaviour, with the rich inputs
MaxRequests == 2
\* the clock stops here
MaxTime == 185
\* the cache-capacity workload: its queries, how many of them (the first ones)
\* may be searched again and again, and its provider requests per behaviour
NumQueries == 12
RepeatQueries == 1
MaxCacheRequests == 12
\* the raw items of one provider answer given to _process_results
MaxItems == 5
\* the calls in flight at once, and their provider requests per behaviour
NumThreads == 2
MaxConcRequests == 12
\* provider requests per behaviour, with every kind of image
MaxImageRequests == 1
\* the largest index given to _generate_realistic_price on its own
MaxIndex == 9
\* provider requests per behaviour, at the api_search boundary
MaxApiRequests == 1
\* the raw items of one provider answer, with items of every shape
MaxShapeItems == 3
\* provider requests per behaviour, whatever the hash
MaxHashRequests == 3

\* ---------------------------------------------------------------- inputs

\* raw provider items
ItemBlocked == [source |-> <<"A","l","i","E","x","p","r","e","s","s"," ","S","t","o","r","e">>,
                title  |-> <<"P","h","o","n","e"," ","c","a","s","e">>,
                price  |-> <<"$","3",".","0","0">>]
ItemClean == [source |-> <<"B","e","s","t"," ","B","u","y">>,
              title  |-> <<"P","h","o","n","e"," ","X">>,
              price  |-> <<"$","1","9",".","9","9">>,
              product_link |-> <<"h","t","t","p","s",":","/","/","x",".","t","e","s","t","/","p","1">>,
              rating |-> <<"4",".","7">>,
              reviews |-> <<"1","2">>]
ItemDear == [source |-> <<"W","a","l","m","a","r","t">>,
             title  |-> <<"L","a","p","t","o","p"," ","P","r","o">>,
             price  |-> <<"$","1",",","2","3","4",".","5","0">>,
             link   |-> <<"h","t","t","p","s",":","/","/","x",".","t","e","s","t","/","g","2">>]
ItemNoPrice == [title |-> <<"U","S","B"," ","h","u","b">>,
                price |-> <<"f","r","e","e">>]
ItemOver == [source |-> <<"T","a","r","g","e","t">>,
             title  |-> <<"S","h","i","r","t"," ","M">>,
             price  |-> <<"$","6","0",",","0","0","0">>]
ItemShort == [source |-> <<"T","a","r","g","e","t">>,
              title  |-> <<"a","b">>,
              price  |-> <<"$","5",".","0","0">>]
ItemTemu == [source |-> <<"T","E","M","U">>,
             title  |-> <<"S","h","o","e","s">>,
             price  |-> <<"$","5",".","0","0">>]
ItemEmpty == None

\* provider answers: a failed request, a body without the results key, and
\* bodies with results
Results(items) == [ok |-> TRUE, json |-> [shopping_results |-> items]]
RFail     == [ok |-> FALSE, json |-> None]
RNoKey    == [ok |-> TRUE, json |-> [error |-> <<"n","o">>]]
RMixed    == Results(<<ItemBlocked, ItemClean>>)
RUnsorted == Results(<<ItemDear, ItemOver, ItemClean, ItemTemu>>)
RAllBad   == Results(<<ItemBlocked, ItemShort, ItemEmpty, ItemClean>>)
RNotList  == Results(NotAList)

Responses == {RFail, RMixed, RUnsorted, RAllBad, RNotList}

Phone == <<"P","h","o","n","e">>

\* the user texts: absent, too short once stripped, and a usable one
Queries == {None, <<" ","a"," ">>, Phone}

\* images: one the vision model describes, one it fails on
ImageTv == [present |-> TRUE, valid |-> TRUE, description |-> <<"t","v">>]
ImageBlank == [present |-> TRUE, valid |-> TRUE, description |-> None]

\* an image validate_image rejects
ImageBad == [present |-> TRUE, valid |-> FALSE, description |-> None]

Images == {NoImage, ImageBlank}

\* every kind of image
AllImages == {NoImage, ImageTv, ImageBlank, ImageBad}

\* the queries of the cache-capacity workload: "qa", "qb", ...
Query(i) == <<"q", LowerChars[i]>>

\* every lower-cased resolved query of the model, in a fixed order
KeyStrings ==
  << Producto, Lower(Phone), <<"t","v">>, Lower(Phone) \o <<" ","t","v">>,
     <<"a"," "," ","t","v">> >>
  \o [i \in 1..(NumQueries + 1) |-> Query(i)]
  \o << <<"a"," ","t","v">> >>

\* the str hash of this process: one that tells the model's queries apart
HashFunctions ==
  { [s \in Range(KeyStrings) |-> CHOOSE i \in DOMAIN KeyStrings : KeyStrings[i] = s] }

\* --------------------------------------------------------------- actions

\* no helper function applied yet
NoApply == [f |-> "none", arg |-> None, value |-> 0]

\* a session without a 'last_search', and no request answered yet
NoSearch == [query |-> None, products |-> <<>>, timestamp |-> -1, search_type |-> "none"]
NoReply == [request |-> [query |-> None, file |-> FALSE, size |-> 0, image |-> NoImage],
            status |-> 0, success |-> FALSE, products |-> <<>>, error |-> ""]

NoCall == [path |-> "none", query |-> None, image |-> NoImage, response |-> None,
           result |-> <<>>, requests |-> 0, t |-> 0]

\* nothing seen yet of the calls whose resolved query is query
NoWatch(query) ==
  [query |-> query, n |-> 0, t |-> 0, result |-> <<>>, requests |-> 0,
   before |-> -1, after |-> -1, pt |-> 0, presult |-> <<>>, pafter |-> -1]

\* the insertion timestamp of the entry of final_query in cache c, -1 without one
StampOf(c, final_query) ==
  IF CacheKey(final_query) \in CacheKeys(c)
    THEN CacheEntry(c, CacheKey(final_query)).timestamp ELSE -1

\* one search_products(query, image) call, run alone from entry to return; the
\* provider's answer is drawn from responses when the call asks the provider
Search(query, image, responses, max_requests) ==
  \E response \in IF search_products(cache, now, query, image, RFail).requests = 1
                    THEN responses ELSE {RFail},
     fq \in {Strip(ResolveQuery(query, image).final_query)} :
    \E r \in {search_products(cache, now, query, image, response)} :
      /\ requests + r.requests <= max_requests
      /\ cache' = r.cache
      /\ now' = r.now
      /\ requests' = requests + r.requests
      /\ last' = [path |-> r.path, query |-> query, image |-> image,
                  response |-> IF r.requests = 1 THEN response ELSE None,
                  result |-> r.result, requests |-> r.requests, t |-> now]
      /\ watch' = IF r.path # "short" /\ fq = watch.query
                    THEN [query |-> watch.query,
                          n |-> IF watch.n < 2 THEN watch.n + 1 ELSE 2,
                          t |-> now, result |-> r.result, requests |-> r.requests,
                          before |-> StampOf(cache, fq), after |-> StampOf(r.cache, fq),
                          pt |-> watch.t, presult |-> watch.result,
                          pafter |-> watch.after]
                    ELSE watch
      /\ UNCHANGED <<api_key, vision, hash, th, raw, products, applied>>

\* time passes between two calls
Tick(d) ==
  /\ now + d <= MaxTime
  /\ now' = now + d
  /\ UNCHANGED <<api_key, vision, hash, cache, requests, last, watch, th, raw, products,
                 applied, used, session, reply>>

\* the clock steps that put an entry just inside and just outside its TTL
TickSteps == {cache_ttl - 1, cache_ttl}

InitCommon ==
  /\ hash \in HashFunctions
  /\ cache = <<>>
  /\ now = 0
  /\ requests = 0
  /\ last = NoCall
  /\ th = <<>>
  /\ raw = None
  /\ products = <<>>
  /\ applied = NoApply
  /\ used = 0
  /\ session = [last_search |-> NoSearch]
  /\ reply = NoReply

\* ------------------------------------- Spec: search_products, rich inputs

Init ==
  /\ api_key \in BOOLEAN
  /\ vision \in BOOLEAN
  /\ watch = NoWatch(None)
  /\ InitCommon

SearchAny ==
  \E query \in Queries, image \in Images :
    Search(query, image, Responses, MaxRequests) /\ UNCHANGED <<used, session, reply>>

TickAny == \E d \in TickSteps : Tick(d)

Next == SearchAny \/ TickAny

Spec == Init /\ [][Next]_vars

\* ------------------------ SpecCache: search_products, the cache at capacity

\* the queries are interchangeable, so a query not searched before is always
\* the next in index order; of those searched before, the first RepeatQueries
\* may be searched again
InitCache ==
  /\ api_key = TRUE
  /\ vision = FALSE
  /\ watch = NoWatch(Query(1))
  /\ InitCommon

SearchCache ==
  \E i \in 1..NumQueries :
    /\ i = used + 1 \/ (i <= used /\ i <= RepeatQueries)
    /\ Search(Query(i), NoImage, {RMixed}, MaxCacheRequests)
    /\ used' = IF i > used THEN i ELSE used
    /\ UNCHANGED <<session, reply>>

NextCache == SearchCache \/ TickAny

SpecCache == InitCache /\ [][NextCache]_vars

\* ------------- SpecHash: search_products, whatever hash() the process has

\* hash() maps the strings to integers of one machine word and promises no
\* more than equal values for equal strings: besides the hash that tells the
\* model's queries apart, one under which "tv" hashes as "phone" does
CollidingHash ==
  [s \in Range(KeyStrings) |->
     CHOOSE i \in DOMAIN KeyStrings :
       KeyStrings[i] = IF s = <<"t","v">> THEN Lower(Phone) ELSE s]

AnyHashFunctions == HashFunctions \cup {CollidingHash}

\* texts that differ in letter case only, and one that differs otherwise
HashQueries == {Phone, Lower(Phone), <<"t","v">>}

InitHash ==
  /\ api_key = TRUE
  /\ vision = FALSE
  /\ hash \in AnyHashFunctions
  /\ cache = <<>>
  /\ now = 0
  /\ requests = 0
  /\ last = NoCall
  /\ watch = NoWatch(None)
  /\ th = <<>>
  /\ raw = None
  /\ products = <<>>
  /\ applied = NoApply
  /\ used = 0
  /\ session = [last_search |-> NoSearch]
  /\ reply = NoReply

SearchHash ==
  \E query \in HashQueries :
    Search(query, NoImage, {RFail, RMixed}, MaxHashRequests)
      /\ UNCHANGED <<used, session, reply>>

NextHash == SearchHash \/ TickAny

SpecHash == InitHash /\ [][NextHash]_vars

\* ------------------ SpecImage: search_products, every kind of image

InitImage ==
  /\ api_key = TRUE
  /\ vision \in BOOLEAN
  /\ watch = NoWatch(None)
  /\ InitCommon

SearchImage ==
  \E query \in Queries, image \in AllImages :
    Search(query, image, {RFail, RMixed}, MaxImageRequests)
      /\ UNCHANGED <<used, session, reply>>

NextImage == SearchImage \/ TickAny

SpecImage == InitImage /\ [][NextImage]_vars

\* --------------------------- SpecNorm: _process_results on its own

\* the raw items an answer is made of
ItemPool == {ItemBlocked, ItemClean, ItemDear, ItemNoPrice, ItemShort}

\* the decoded bodies: none, one without the results key, and every list of
\* up to MaxItems raw items
RawResponses ==
  {None, RNoKey.json}
    \cup { [shopping_results |-> items] :
             items \in UNION { [1..k -> ItemPool] : k \in 0..MaxItems } }

InitNorm ==
  /\ api_key = TRUE
  /\ vision = FALSE
  /\ watch = NoWatch(None)
  /\ InitCommon

\* products = self._process_results(data, 'google_shopping')
Process(data) ==
  /\ raw = None
  /\ raw' = data
  /\ products' = _process_results(data)
  /\ UNCHANGED <<api_key, vision, hash, cache, now, requests, last, watch, th, applied,
                 used, session, reply>>

NextNorm == \E data \in RawResponses : Process(data)

SpecNorm == InitNorm /\ [][NextNorm]_vars

\* ------------- SpecItems: _process_results on its own, items of every shape

\* a title of 120 characters, the last one rewritten by html.escape, and a
\* store name of 121 characters
LongTitle == [i \in 1..119 |-> "a"] \o <<"&">>
LongStore == [i \in 1..121 |-> "b"]
ItemLong == [source |-> LongStore, title |-> LongTitle, price |-> <<"$","7",".","0","0">>]

\* no title; a JSON string where an object should be
ItemUntitled == [source |-> <<"T","a","r","g","e","t">>, price |-> <<"$","5",".","0","0">>]
ItemString == [json_string |-> <<"n","/","a">>]

\* the raw items of every shape, in a fixed order
ItemShapes ==
  <<ItemClean, ItemDear, ItemNoPrice, ItemLong, ItemBlocked, ItemShort, ItemUntitled,
    ItemString, ItemEmpty>>

\* every list of up to MaxShapeItems of them
ShapeResponses ==
  { [shopping_results |-> [i \in DOMAIN shapes |-> ItemShapes[shapes[i]]]] :
      shapes \in UNION { [1..k -> DOMAIN ItemShapes] : k \in 0..MaxShapeItems } }

NextItems == \E data \in ShapeResponses : Process(data)

SpecItems == InitNorm /\ [][NextItems]_vars

\* ------------------------------ SpecPrice: _extract_price on its own

\* the parts a price text is made of, each with what the pattern
\* \$\s*(\d{1,4}(?:,\d{3})*(?:\.\d{2})?) takes of it. Before the amount: text
\* without a match, or an earlier amount (value, in cents)
PricePres ==
  { [text |-> <<>>, value |-> -1],
    [text |-> <<"U","S">>, value |-> -1],
    [text |-> <<"$"," ","x"," ">>, value |-> -1],
    [text |-> <<"$","7"," ">>, value |-> 700] }

\* the spaces after the dollar sign
PriceSpaces == { <<>>, <<" ">> }

\* the leading digits: the number the first 4 of them denote, and the number
\* all of them denote
PriceLeads ==
  { [text |-> <<"0">>, taken |-> 0, all |-> 0],
    [text |-> <<"1">>, taken |-> 1, all |-> 1],
    [text |-> <<"5">>, taken |-> 5, all |-> 5],
    [text |-> <<"1","9">>, taken |-> 19, all |-> 19],
    [text |-> <<"9","9","9">>, taken |-> 999, all |-> 999],
    [text |-> <<"1","2","3","4">>, taken |-> 1234, all |-> 1234],
    [text |-> <<"5","0","0","0","0">>, taken |-> 5000, all |-> 50000],
    [text |-> <<"5","0","0","0","1">>, taken |-> 5000, all |-> 50001],
    [text |-> <<"9","9","9","9","9">>, taken |-> 9999, all |-> 99999] }

\* what follows the leading digits: nothing, a group of thousands (its
\* number), or a comma with too few digits (-1)
PriceGroups ==
  { [text |-> <<>>, value |-> 0],
    [text |-> <<",","2","3","4">>, value |-> 234],
    [text |-> <<",","0","0","0">>, value |-> 0],
    [text |-> <<",","2","3">>, value |-> -1] }

\* the end: nothing, or a point with digits, of which the pattern takes two
\* (their number) or, of a single one, none (-1)
PriceFractions ==
  { [text |-> <<>>, value |-> -1],
    [text |-> <<".","9","9">>, value |-> 99],
    [text |-> <<".","5">>, value |-> -1],
    [text |-> <<".","5","0">>, value |-> 50],
    [text |-> <<".","0","0">>, value |-> 0],
    [text |-> <<".","9","9","9">>, value |-> 99] }

\* the cents of the fraction, when the pattern reaches it
FractionCents(frac) == IF frac.value = -1 THEN 0 ELSE frac.value

\* the amount, in cents, of the first match of the pattern in the text made
\* of the parts
FirstMatch(pre, lead, grp, frac) ==
  IF pre.value # -1 THEN pre.value
  ELSE IF Len(lead.text) > 4 THEN lead.taken * 100
  ELSE IF grp.text = <<>> THEN lead.taken * 100 + FractionCents(frac)
  ELSE IF grp.value = -1 THEN lead.taken * 100
  ELSE (lead.taken * 1000 + grp.value) * 100 + FractionCents(frac)

\* price texts with a dollar amount, and what the first match in each denotes
PricedCases ==
  { [text  |-> pre.text \o <<"$">> \o sp \o lead.text \o grp.text \o frac.text,
     pre   |-> pre.text, spaces |-> sp, lead |-> lead, group |-> grp.text,
     fraction |-> frac.text,
     match |-> TRUE, first |-> FirstMatch(pre, lead, grp, frac)] :
    pre \in PricePres, sp \in PriceSpaces, lead \in PriceLeads,
    grp \in PriceGroups, frac \in PriceFractions }

\* a price text without a match: absent or empty, a word, a lone dollar sign,
\* a number without one
UnpricedCase(text) ==
  [text |-> text, pre |-> <<>>, spaces |-> <<>>,
   lead |-> [text |-> <<>>, taken |-> 0, all |-> 0], group |-> <<>>,
   fraction |-> <<>>, match |-> FALSE, first |-> 0]

UnpricedCases ==
  { UnpricedCase(None), UnpricedCase(<<"f","r","e","e">>), UnpricedCase(<<"$">>),
    UnpricedCase(<<"1","9",".","9","9">>) }

PriceCases == PricedCases \cup UnpricedCases

InitPrice ==
  /\ api_key = TRUE
  /\ vision = FALSE
  /\ watch = NoWatch(None)
  /\ InitCommon

AppliedUnchanged ==
  UNCHANGED <<api_key, vision, hash, cache, now, requests, last, watch, th, raw,
              products, used, session, reply>>

\* price_num = self._extract_price(price_str)
ExtractPrice(case) ==
  /\ applied = NoApply
  /\ applied' = [f |-> "_extract_price", arg |-> case,
                 value |-> _extract_price(case.text)]
  /\ AppliedUnchanged

NextPrice == \E case \in PriceCases : ExtractPrice(case)

SpecPrice == InitPrice /\ [][NextPrice]_vars

\* -------------- SpecEstimate: _generate_realistic_price on its own

\* queries, each with whether an electronics word and an apparel word occur
\* in it, whatever their case
EstimateQueries ==
  { [text |-> <<"g","a","m","i","n","g"," ","l","a","p","t","o","p">>,
     electronics |-> TRUE, apparel |-> FALSE],
    [text |-> <<"i","P","h","o","n","e"," ","1","5">>,
     electronics |-> TRUE, apparel |-> FALSE],
    [text |-> <<"L","A","P","T","O","P">>, electronics |-> TRUE, apparel |-> FALSE],
    [text |-> <<"b","l","u","e"," ","s","h","i","r","t">>,
     electronics |-> FALSE, apparel |-> TRUE],
    [text |-> <<"R","u","n","n","i","n","g"," ","S","h","o","e","s">>,
     electronics |-> FALSE, apparel |-> TRUE],
    [text |-> <<"T","-","S","H","I","R","T">>, electronics |-> FALSE, apparel |-> TRUE],
    [text |-> <<"l","a","p","t","o","p"," ","s","h","i","r","t">>,
     electronics |-> TRUE, apparel |-> TRUE],
    [text |-> <<"s","h","o","e","s"," ","f","o","r"," ","p","h","o","n","e">>,
     electronics |-> TRUE, apparel |-> TRUE],
    [text |-> <<"m","u","g">>, electronics |-> FALSE, apparel |-> FALSE],
    [text |-> <<"l","a","p"," ","t","o","p">>, electronics |-> FALSE, apparel |-> FALSE],
    [text |-> <<"t","v">>, electronics |-> FALSE, apparel |-> FALSE],
    [text |-> Producto, electronics |-> FALSE, apparel |-> FALSE] }

\* price = self._generate_realistic_price(query, i)
Estimate(query, index) ==
  /\ applied = NoApply
  /\ applied' = [f |-> "_generate_realistic_price",
                 arg |-> [query |-> query, index |-> index],
                 value |-> _generate_realistic_price(query.text, index)]
  /\ AppliedUnchanged

NextEstimate == \E query \in EstimateQueries, index \in 0..MaxIndex : Estimate(query, index)

SpecEstimate == InitPrice /\ [][NextEstimate]_vars

\* ----------------------- SpecStore: _is_blacklisted_store on its own

\* a text in upper case
Upper(s) ==
  [i \in DOMAIN s |->
     IF \E k \in DOMAIN LowerChars : LowerChars[k] = s[i]
       THEN UpperChars[CHOOSE k \in DOMAIN LowerChars : LowerChars[k] = s[i]]
       ELSE s[i]]

\* a text with its first letter in upper case
Capitalized(s) == Upper(SubSeq(s, 1, 1)) \o SubSeq(s, 2, Len(s))

\* store names that hold a denylist entry: the entry in lower, upper and
\* mixed case, alone or inside a longer name
ListedStores ==
  { [text |-> ItemBlocked.source, listed |-> TRUE] } \cup
  { [text |-> pre \o name \o suf, listed |-> TRUE] :
    pre \in { <<>>, <<"M","y"," ">> },
    suf \in { <<>>, <<" ","S","t","o","r","e">>, <<"b","o","n","e">> },
    name \in UNION { {entry, Upper(entry), Capitalized(entry)} : entry \in BlacklistSet } }

\* store names that hold none: absent or empty, other stores, and entries
\* cut short or split
UnlistedStores ==
  { [text |-> name, listed |-> FALSE] :
    name \in { None, <<"B","e","s","t"," ","B","u","y">>, <<"A","m","a","z","o","n">>,
               <<"W","i","s"," ","h">>, <<"T","e","m">>,
               <<"A","l","i"," ","E","x","p","r","e","s","s">>, <<"e","B","a","y">>,
               <<"W","a","l","m","a","r","t">>,
               <<"M","e","r","c","a","d","o"," ","L","i","b","r","e">> } }

StoreCases == ListedStores \cup UnlistedStores

\* self._is_blacklisted_store(item.get('source', ''))
CheckStore(case) ==
  /\ applied = NoApply
  /\ applied' = [f |-> "_is_blacklisted_store", arg |-> case,
                 value |-> _is_blacklisted_store(case.text)]
  /\ AppliedUnchanged

NextStore == \E case \in StoreCases : CheckStore(case)

SpecStore == InitPrice /\ [][NextStore]_vars

\* ------------- SpecConc: search_products calls in flight on one cache

\* app.run(threaded=True): each request runs search_products in a thread of
\* its own on the one price_finder; a thread's position is the next cache
\* step of its call
Threads == 1..NumThreads

Idle == [pc |-> "idle", query |-> None, cache_key |-> None, data |-> <<>>,
         oldest_key |-> None]

\* the calls between their first and their last cache step
InFlight == { t \in Threads : th[t].pc \notin {"idle", "failed"} }

InitConc ==
  /\ api_key = TRUE
  /\ vision = FALSE
  /\ hash \in HashFunctions
  /\ cache = <<>>
  /\ now = 0
  /\ requests = 0
  /\ last = NoCall
  /\ watch = NoWatch(None)
  /\ th = [t \in Threads |-> Idle]
  /\ raw = None
  /\ products = <<>>
  /\ applied = NoApply
  /\ used = 0
  /\ session = [last_search |-> NoSearch]
  /\ reply = NoReply

ConcUnchanged ==
  UNCHANGED <<api_key, vision, hash, last, watch, raw, products, applied, session,
              reply>>

\* a call starts: the query is resolved, and cache_key in self.cache is
\* evaluated
Call(t, i) ==
  /\ th[t].pc = "idle"
  /\ i = used + 1 \/ (i <= used /\ i <= RepeatQueries)
  /\ requests + Cardinality(InFlight) < MaxConcRequests
  /\ th' = [th EXCEPT ![t] =
              [pc |-> IF CacheKey(Query(i)) \in CacheKeys(cache) THEN "get" ELSE "fetch",
               query |-> Query(i), cache_key |-> CacheKey(Query(i)),
               data |-> <<>>, oldest_key |-> None]]
  /\ used' = IF i > used THEN i ELSE used
  /\ UNCHANGED <<cache, now, requests>>
  /\ ConcUnchanged

\* cache_data, timestamp = self.cache[cache_key], a KeyError when the key is
\* gone; then the TTL test and the return of cache_data
Lookup(t) ==
  /\ th[t].pc = "get"
  /\ th' = [th EXCEPT ![t] =
              IF th[t].cache_key \notin CacheKeys(cache)
                THEN [th[t] EXCEPT !.pc = "failed"]
              ELSE IF IsFresh(CacheEntry(cache, th[t].cache_key).timestamp, now)
                THEN Idle
              ELSE [th[t] EXCEPT !.pc = "fetch"]]
  /\ UNCHANGED <<cache, now, requests, used>>
  /\ ConcUnchanged

\* the provider request and the processing, ranking and tagging of its
\* results, none of which touches the cache
Fetch(t) ==
  /\ th[t].pc = "fetch"
  /\ requests' = requests + 1
  /\ th' = [th EXCEPT ![t] =
              [th[t] EXCEPT !.pc = "store",
                            !.data = Ranked(th[t].query, "text", th[t].query,
                                       _process_results(_make_api_request(RMixed)))]]
  /\ UNCHANGED <<cache, now, used>>
  /\ ConcUnchanged

\* self.cache[cache_key] = (final_products, time.time()): the clock it reads
\* is past that of every earlier store by the time its own request took
Store(t) ==
  /\ th[t].pc = "store"
  /\ now' = now + request_time
  /\ cache' = CachePut(cache, th[t].cache_key, th[t].data, now')
  /\ th' = [th EXCEPT ![t] = [th[t] EXCEPT !.pc = "len"]]
  /\ UNCHANGED <<requests, used>>
  /\ ConcUnchanged

\* if len(self.cache) > 10, else return final_products
LenCheck(t) ==
  /\ th[t].pc = "len"
  /\ th' = [th EXCEPT ![t] =
              IF Len(cache) > cache_max THEN [th[t] EXCEPT !.pc = "min"] ELSE Idle]
  /\ UNCHANGED <<cache, now, requests, used>>
  /\ ConcUnchanged

\* oldest_key = min(self.cache.keys(), ...)
ChooseOldest(t) ==
  /\ th[t].pc = "min"
  /\ th' = [th EXCEPT ![t] =
              [th[t] EXCEPT !.pc = "del", !.oldest_key = OldestKey(cache)]]
  /\ UNCHANGED <<cache, now, requests, used>>
  /\ ConcUnchanged

\* del self.cache[oldest_key], a KeyError when the key is gone; then return
Delete(t) ==
  /\ th[t].pc = "del"
  /\ IF th[t].oldest_key \in CacheKeys(cache)
       THEN /\ cache' = CacheDel(cache, th[t].oldest_key)
            /\ th' = [th EXCEPT ![t] = Idle]
       ELSE /\ cache' = cache
            /\ th' = [th EXCEPT ![t] = [th[t] EXCEPT !.pc = "failed"]]
  /\ UNCHANGED <<now, requests, used>>
  /\ ConcUnchanged

CallAny == \E t \in Threads, i \in 1..NumQueries : Call(t, i)
LookupAny == \E t \in Threads : Lookup(t)
FetchAny == \E t \in Threads : Fetch(t)
StoreAny == \E t \in Threads : Store(t)
LenCheckAny == \E t \in Threads : LenCheck(t)
ChooseOldestAny == \E t \in Threads : ChooseOldest(t)
DeleteAny == \E t \in Threads : Delete(t)

NextConc ==
  \/ CallAny
  \/ LookupAny
  \/ FetchAny
  \/ StoreAny
  \/ LenCheckAny
  \/ ChooseOldestAny
  \/ DeleteAny

SpecConc == InitConc /\ [][NextConc]_vars

\* ------------------ SpecApi: api_search, the boundary, for a logged-in session

\* the texts of the form: absent, blank, too short once stripped, usable
FormTexts == {None, <<" "," ">>, <<" ","a"," ">>, Phone}

\* the uploads: none, an empty file, images of the largest accepted size, and
\* one a byte larger
Uploads ==
  {[file |-> FALSE, size |-> 0, image |-> NoImage],
   [file |-> TRUE, size |-> 0, image |-> NoImage],
   [file |-> TRUE, size |-> max_image_bytes + 1, image |-> ImageTv]}
  \cup {[file |-> TRUE, size |-> max_image_bytes, image |-> image] :
          image \in {ImageTv, ImageBlank, ImageBad}}

Forms ==
  {[query |-> text, file |-> upload.file, size |-> upload.size, image |-> upload.image] :
     text \in FormTexts, upload \in Uploads}

\* the provider's answers: a failure, listings, and a body that makes
\* search_products raise
ApiResponses == {RFail, RMixed, RNotList}

InitApi ==
  /\ api_key \in BOOLEAN
  /\ vision \in BOOLEAN
  /\ watch = NoWatch(None)
  /\ InitCommon

\* return jsonify({'success': False, 'error': error}), 400: before
\* search_products and before any write of the route to the session s it
\* was entered with
Rejected(form, error, s) ==
  /\ reply' = ErrorReply(form, 400, error)
  /\ session' = s
  /\ UNCHANGED <<api_key, vision, hash, cache, now, requests, last, watch, th, raw,
                 products, applied, used>>

\* the body of api_search, entered with the session s: session['last_search']
\* is the one key it writes
ApiSearchBody(form, s, responses, max_requests) ==
  IF TooLarge(form) THEN Rejected(form, "La imagen es demasiado grande", s)
  ELSE IF NoEntry(form)
    THEN Rejected(form, "Debe proporcionar una consulta o una imagen", s)
  ELSE /\ Search(Limited(FormQuery(form)), ImageContent(form), responses, max_requests)
       /\ \E o \in {IF last'.path = "raised"
                       THEN OnException(form, now')
                       ELSE OnReturn(form, Limited(FormQuery(form)),
                                     ImageContent(form), last'.result, now')} :
            /\ session' = o.session @@ s
            /\ reply' = o.reply
       /\ UNCHANGED used

\* one POST /api/search of a logged-in session, from entry to response; the
\* requests follow one another at once, the clock moving with the provider
\* requests only
api_search(form) == ApiSearchBody(form, session, ApiResponses, MaxApiRequests)

ApiSearchAny == \E form \in Forms : api_search(form)

NextApi == ApiSearchAny

SpecApi == InitApi /\ [][NextApi]_vars

\* -------------------- SpecSession: the session gate in front of the routes

\* if time_diff > 7200 in is_user_logged_in, if time_diff > 1200 in
\* before_request: seconds
max_login_age == 7200
max_idle == 1200

\* the session of this specification: 'user_id' (None without one; user_name,
\* user_email and id_token are written and cleared with it), 'login_time' and
\* 'timestamp' as the seconds their isoformat() strings stand for (-1 without
\* the key), 'last_search'
NoSession ==
  [user_id |-> None, login_time |-> -1, timestamp |-> -1, last_search |-> NoSearch]

\* a before_request that refreshes the 'timestamp' and never clears
before_request_keep(s, t) == [s EXCEPT !.timestamp = t]

\* an is_user_logged_in that asks for the 'user_id' only
is_user_logged_in_any_age(s, t) == s.user_id # None

\* @app.before_request at time t: session.clear() when the 'timestamp' is more
\* than 1200 seconds old, then session['timestamp'] = now. The strings the
\* program writes are isoformat() strings longer than 10 characters, which
\* fromisoformat parses: the except branch is not entered on them
before_request(s, t) ==
  [(IF s.timestamp >= 0 /\ t - s.timestamp > max_idle THEN NoSession ELSE s)
     EXCEPT !.timestamp = t]

\* FirebaseAuth.is_user_logged_in at time t; a session without 'login_time'
\* skips the age test
is_user_logged_in(s, t) ==
  IF s.user_id = None THEN FALSE
  ELSE IF s.login_time >= 0 /\ t - s.login_time > max_login_age THEN FALSE
  ELSE TRUE

\* FirebaseAuth.set_user_session at time t
set_user_session(s, user_data, t) ==
  [s EXCEPT !.user_id = user_data.user_id, !.login_time = t]

\* FirebaseAuth.clear_user_session: session.clear(), the 'timestamp' put back
clear_user_session(s) == [NoSession EXCEPT !.timestamp = s.timestamp]

\* the messages flashed with the redirects
SessionExpired ==
  "Tu sesion ha expirado. Inicia sesion nuevamente."
LoggedOut == "Has cerrado la sesion correctamente."
NoRecentSearch == "No hay busquedas recientes."

\* what login_user returns: the provider accepted the password, or did not
LoginOk ==
  [success |-> TRUE, message |-> "Bienvenido! Has iniciado sesion correctamente.",
   user_data |-> [user_id |-> <<"u","1">>]]
LoginFailed ==
  [success |-> FALSE, message |-> "Correo o contraseña incorrectos",
   user_data |-> [user_id |-> None]]
LoginResults == {LoginOk, LoginFailed}

\* a request: its route and, for api_search, its form
GetRequest(route) ==
  [route |-> route, query |-> None, file |-> FALSE, size |-> 0, image |-> NoImage]
PostSearch(query) ==
  [route |-> "api_search", query |-> query, file |-> FALSE, size |-> 0,
   image |-> NoImage]

\* the forms sent to api_search: an empty one and a text search
SessionForms == {PostSearch(None), PostSearch(Phone)}

\* the provider fails: the searches end in the examples
SessionResponses == {RFail}

\* provider requests per behaviour, and where the clock stops
MaxSessionRequests == 2
MaxSessionTime == 7202

\* the clock steps between two requests: an idle time just inside and just
\* outside the 1200 seconds
SessionSteps == {max_idle, max_idle + 1}

\* redirect(url_for(...)) with its flashed message; the session is the one
\* before_request left
Redirected(request, message, s) ==
  /\ reply' = ErrorReply(request, 302, message)
  /\ session' = s
  /\ UNCHANGED <<api_key, vision, hash, cache, now, requests, last, watch, th, raw,
                 products, applied, used>>

\* render_template_string(...) of a page listing found
Rendered(request, found, s) ==
  /\ reply' = [request |-> request, status |-> 200, success |-> FALSE,
               products |-> found, error |-> ""]
  /\ session' = s
  /\ UNCHANGED <<api_key, vision, hash, cache, now, requests, last, watch, th, raw,
                 products, applied, used>>

\* POST /auth/login with both fields filled in, login_user returning result;
\* before_request runs first, as before every route
auth_login(result) ==
  \E s \in {before_request(session, now)} :
    IF result.success
      THEN Redirected(GetRequest("auth_login"), result.message,
                      set_user_session(s, result.user_data, now))
      ELSE Redirected(GetRequest("auth_login"), result.message, s)

\* GET /auth/logout
auth_logout ==
  \E s \in {before_request(session, now)} :
    Redirected(GetRequest("auth_logout"), LoggedOut, clear_user_session(s))

\* GET /search, behind login_required
search_page ==
  \E s \in {before_request(session, now)} :
    IF ~is_user_logged_in(s, now)
      THEN Redirected(GetRequest("search_page"), SessionExpired, s)
      ELSE Rendered(GetRequest("search_page"), <<>>, s)

\* GET /results, behind login_required
results_page ==
  \E s \in {before_request(session, now)} :
    IF ~is_user_logged_in(s, now)
      THEN Redirected(GetRequest("results_page"), SessionExpired, s)
    ELSE IF s.last_search = NoSearch
      THEN Redirected(GetRequest("results_page"), NoRecentSearch, s)
    ELSE Rendered(GetRequest("results_page"), Prefix(s.last_search.products, 6), s)

\* POST /api/search, behind login_required
ApiSearchGated(form) ==
  \E s \in {before_request(session, now)} :
    IF ~is_user_logged_in(s, now)
      THEN Redirected(form, SessionExpired, s)
      ELSE ApiSearchBody(form, s, SessionResponses, MaxSessionRequests)

\* time passes between two requests
SessionTick(d) ==
  /\ now + d <= MaxSessionTime
  /\ now' = now + d
  /\ UNCHANGED <<api_key, vision, hash, cache, requests, last, watch, th, raw, products,
                 applied, used, session, reply>>

InitSession ==
  /\ api_key = TRUE
  /\ vision = FALSE
  /\ watch = NoWatch(None)
  /\ hash \in HashFunctions
  /\ cache = <<>>
  /\ now = 0
  /\ requests = 0
  /\ last = NoCall
  /\ th = <<>>
  /\ raw = None
  /\ products = <<>>
  /\ applied = NoApply
  /\ used = 0
  /\ session = NoSession
  /\ reply = [NoReply EXCEPT !.request = GetRequest("none")]

LoginAny == \E result \in LoginResults : auth_login(result)

ApiSearchGatedAny == \E form \in SessionForms : ApiSearchGated(form)

SessionTickAny == \E d \in SessionSteps : SessionTick(d)

NextSession ==
  \/ LoginAny
  \/ auth_logout
  \/ search_page
  \/ results_page
  \/ ApiSearchGatedAny
  \/ SessionTickAny

SpecSession == InitSession /\ [][NextSession]_vars

\* ------------------------------------------------- claims: the cache

\* the entries of a cache, as a set
Entries(c) == Range(c)

\* a step of the sequential specifications is a search_products call, not the
\* passing of time, when it issues a request or leaves the clock alone
IsCall == requests' # requests \/ now' = now

\* the cache key of the call recorded in last', for a call that got past the
\* length check
KeyOfCall == CacheKey(Strip(ResolveQuery(last'.query, last'.image).final_query))

\* C1: after every search_products call of a single-threaded sequence of
\* calls, the cache holds at most 10 entries (one per key).
C1_CacheAtMostTen ==
  /\ Len(cache) <= 10
  /\ Cardinality(CacheKeys(cache)) = Len(cache)

\* a call has stored into a full cache, and an entry was evicted
C1_Witness ==
  /\ last.path = "miss"
  /\ requests > 10
  /\ Len(cache) = 10

\* C3: when a store makes the cache hold more than 10 entries, exactly one
\* entry is removed, the one with the smallest insertion timestamp of all the
\* entries then in the cache (the new one included); every other entry keeps
\* its list and its timestamp.
C3_EvictsOldest ==
  [][ (IsCall /\ last'.path = "miss" /\ Len(cache) = 10
         /\ KeyOfCall \notin CacheKeys(cache))
      => LET new == [key |-> KeyOfCall, data |-> last'.result, timestamp |-> now']
             all == Entries(cache) \cup {new}
         IN  \E victim \in all :
               /\ \A e \in all : victim.timestamp <= e.timestamp
               /\ Entries(cache') = all \ {victim}
               /\ Len(cache') = 10 ]_vars

\* an eviction has removed the entry of the second query while the entry of the
\* first query, stored earlier and stored again after it expired, stayed
C3_Witness ==
  /\ last.path = "miss"
  /\ requests > 10
  /\ Len(cache) = 10
  /\ CacheKey(Query(1)) \in CacheKeys(cache)
  /\ CacheKey(Query(2)) \notin CacheKeys(cache)
  /\ cache[1].key = CacheKey(Query(1))

\* C4, as claimed: of two calls with the identical resolved query made less
\* than 180 seconds apart, the second returns the list the first returned and
\* issues no provider request.
C4_Original ==
  (watch.n = 2 /\ watch.t - watch.pt < 180)
    => (watch.result = watch.presult /\ watch.requests = 0)

\* C4, amended: of two calls with the identical resolved query, the second
\* returns the list the first returned and issues no provider request when
\* the cache entry the first call stored or was served is still in the cache
\* (not evicted, not replaced) and is less than 180 seconds old, counted from
\* its insertion, at the second call.
C4_SameEntryServed ==
  (watch.n = 2 /\ watch.before # -1 /\ watch.before = watch.pafter
     /\ watch.t - watch.before < 180)
    => (watch.result = watch.presult /\ watch.requests = 0)

\* the second of two calls was served the entry of the first in the last
\* second of its life
C4_Witness ==
  /\ watch.n = 2
  /\ watch.before # -1
  /\ watch.before = watch.pafter
  /\ watch.t - watch.before = 179
  /\ watch.requests = 0
  /\ watch.result = watch.presult

SortedByPrice(list) ==
  \A i, j \in DOMAIN list : i < j => list[i].price_numeric <= list[j].price_numeric

\* the listings of the cache
CachedListings == UNION { Range(cache[i].data) : i \in DOMAIN cache }

\* the listings search_products has just returned, and those of the cache
KnownListings == Range(last.result) \cup CachedListings

\* C6: on every return path of search_products (the early example set, the
\* return without a credential, the cache hit, the fresh provider result) the
\* returned list is sorted ascending by price_numeric and has at most 6
\* elements.
C6_SortedAtMostSix ==
  /\ SortedByPrice(last.result)
  /\ Len(last.result) <= 6

\* a provider answer whose items were not in order of price has been ranked
C6_Witness ==
  /\ last.path = "miss"
  /\ last.response = RUnsorted
  /\ Len(last.result) = 3
  /\ last.result[1].title = ItemClean.title
  /\ last.result[3].title = ItemDear.title

\* C7: every listing search_products returns, and every listing stored in the
\* cache, has a price_numeric above 0 and of at most 50000 (5000000 cents),
\* parsed or synthesized.
C7_PriceInRange ==
  \A p \in KnownListings : p.price_numeric > 0 /\ p.price_numeric <= 5000000

\* a list with parsed prices and a synthesized one (for the item priced above
\* the limit) has been returned and stored
C7_Witness ==
  /\ last.path = "miss"
  /\ last.response = RUnsorted
  /\ \E p \in Range(last.result) :
       p.title = ItemOver.title /\ p.price_numeric = _generate_realistic_price(ItemOver.title, 1)
  /\ \E p \in CachedListings : p.price_numeric = 123450

\* a store name that holds a denylisted marketplace name, whatever its case
Denylisted(store) == \E name \in BlacklistSet : Contains(Lower(store), name)

\* C9: no listing of a denylisted store is returned or stored in the cache,
\* after any sequence of searches; from the answer with one denylisted item
\* and one clean item exactly the clean one is emitted.
C9_NoBlacklisted ==
  /\ \A p \in KnownListings : ~Denylisted(p.source)
  /\ (last.path = "miss" /\ last.response = RMixed)
       => /\ Len(last.result) = 1
          /\ last.result[1].title = ItemClean.title
          /\ last.result[1].source = ItemClean.source

\* the answer with the denylisted item and the clean one was processed, and
\* its result is in the cache
C9_Witness ==
  /\ last.path = "miss"
  /\ last.response = RMixed
  /\ Len(last.result) = 1
  /\ \E i \in DOMAIN cache : cache[i].data = last.result

\* C10: for an empty query and no image, with or without a provider
\* credential and whatever the cache holds, search_products returns the
\* 3-item example set, every listing tagged 'example', sorted ascending by
\* price, and issues no provider request.
C10_EmptyQueryExamples ==
  (last.path # "none" /\ last.query = None /\ ~last.image.present)
    => /\ Len(last.result) = 3
       /\ \A p \in Range(last.result) : p.search_source = "example"
       /\ SortedByPrice(last.result)
       /\ last.requests = 0

\* --------------------------------------- claims: _process_results

\* the raw items of the answer given to _process_results
RawItems ==
  IF raw # None /\ "shopping_results" \in DOMAIN raw THEN raw["shopping_results"]
  ELSE <<>>

\* listing p is the one built from raw item item
BuiltFrom(p, item) ==
  /\ item # None
  /\ "title" \in DOMAIN item
  /\ p.title = _clean_text(item.title)
  /\ p.source = _clean_text(Get(item, "source", <<"T","i","e","n","d","a">>))

\* C8: from a raw answer with any number of raw items _process_results emits
\* at most 3 listings, and they appear in the relative order of the raw items
\* they were built from.
C8_AtMostThreeInOrder ==
  /\ Len(products) <= 3
  /\ \E f \in [DOMAIN products -> DOMAIN RawItems] :
       /\ \A i, j \in DOMAIN products : i < j => f[i] < f[j]
       /\ \A i \in DOMAIN products : BuiltFrom(products[i], RawItems[f[i]])

\* an answer of more than 3 raw items, a skipped one among the first, has
\* been processed into listings of different items
C8_Witness ==
  /\ Len(RawItems) > 3
  /\ RawItems[1] = ItemBlocked
  /\ Len(products) = 2
  /\ products[1].title # products[2].title

\* ------------------------------------------- claims: concurrent calls

\* C2: with two or more search_products calls running at once on the shared
\* cache, interleaved at the cache steps (lookup, insert, length check,
\* choose oldest key, delete), no call fails because of another call's cache
\* step, and whenever no call is in flight the cache holds at most 10
\* entries.
C2_ConcurrentCacheSafe ==
  /\ \A t \in Threads : th[t].pc # "failed"
  /\ (InFlight = {}) => Len(cache) <= 10

\* ------------------------------------------ claims: failure handling

\* C11: search_products never raises to its caller: whatever the provider
\* answers (no credential, failed request, a body without the results key, a
\* results value that is no list, malformed items) and whatever the vision
\* model does, the call returns a list.
C11_NeverRaises == last.path # "raised"

\* a listing of the synthetic example set: one of its stores with the search
\* link built for that store
IsExample(p) ==
  \E i \in 1..3 :
    /\ p.source = ExampleStores[i]
    /\ Len(p.link) >= Len(ExampleLinks[i])
    /\ Prefix(p.link, Len(ExampleLinks[i])) = ExampleLinks[i]

\* C12: whenever the list search_products returns is the synthetic example
\* set (short query, no credential, provider failure, an answer that yields
\* no listing), every listing of it carries the tag 'example'.
C12_ExamplesTagged ==
  \A p \in Range(last.result) : IsExample(p) => p.search_source = "example"

\* the provider answer yields no listing: the request failed, or no item of
\* the answer was accepted
ZeroListings(response) ==
  \/ ~response.ok
  \/ (~ProcessRaises(response.json) /\ _process_results(response.json) = <<>>)

\* the resolved, stripped query of the call recorded in last
FinalQueryOfLast == Strip(ResolveQuery(last.query, last.image).final_query)

\* C13: when the processing of the provider answer yields no listing
\* (provider error, empty answer, every item rejected) the result is the
\* 3-item example set: stores Amazon, Walmart, Target in that order, prices
\* estimate(query, 0), estimate(query, 1), estimate(query, 2).
C13_FallbackToExamples ==
  (last.path = "miss" /\ ZeroListings(last.response))
    => /\ Len(last.result) = 3
       /\ \A i \in 1..3 :
            /\ last.result[i].source = ExampleStores[i]
            /\ last.result[i].price_numeric
                 = _generate_realistic_price(FinalQueryOfLast, i - 1)

\* an answer whose items are all rejected has been replaced by the examples
\* of the query "Phone", priced from 400.00
C13_Witness ==
  /\ last.path = "miss"
  /\ last.response = RAllBad
  /\ last.query = Phone
  /\ Len(last.result) = 3
  /\ last.result[1].price_numeric = 40000
  /\ last.result[1].source = <<"A","m","a","z","o","n">>

\* ------------------------------------------ claims: provider requests

\* the call recorded in last' got past the length check of the resolved query
CallNotShort ==
  /\ ResolveQuery(last'.query, last'.image).final_query # None
  /\ Len(Strip(ResolveQuery(last'.query, last'.image).final_query)) >= 2

\* the cache holds, before the call recorded in last', an entry of its key
\* that is less than 180 seconds old
CallFindsFresh ==
  /\ KeyOfCall \in CacheKeys(cache)
  /\ now - CacheEntry(cache, KeyOfCall).timestamp < 180

\* C14: a search_products call issues at most one provider request and never
\* retries: exactly one on a cache miss with a credential, the request
\* failing or not, and none on a cache hit, without a credential and on the
\* short-query path.
C14_AtMostOneRequest ==
  [][ IsCall
      => /\ requests' - requests = last'.requests
         /\ last'.requests \in {0, 1}
         /\ last'.requests = 1
              <=> (api_key /\ CallNotShort /\ ~CallFindsFresh) ]_vars

\* a call whose one request failed has returned
C14_Witness ==
  /\ last.path = "miss"
  /\ last.response = RFail
  /\ last.requests = 1
  /\ requests = 1
  /\ Len(last.result) = 3

\* ------------------------------------------ claims: query resolution

\* the image of the call recorded in last was described: the vision model is
\* available, the image passed validate_image and a description came back
Described == vision /\ last.image.present /\ last.image.valid
               /\ last.image.description # None

\* the call recorded in last went to the provider with final_query, and its
\* listings carry the tag: they are tagged tag and stored under the key of
\* final_query
ResolvedAs(final_query, tag) ==
  /\ \A p \in Range(last.result) : p.search_source = tag
  /\ \E i \in DOMAIN cache :
       /\ cache[i].key = CacheKey(Strip(final_query))
       /\ cache[i].data = last.result

\* C15: text and a described image give text + ' ' + description
\* tagged combined; text and an image of which no description was obtained
\* give the text alone tagged text_fallback; an image alone, described,
\* gives the description tagged image.
C15_ResolveByCase ==
  (last.path = "miss")
    => /\ (last.query # None /\ Described)
            => ResolvedAs(last.query \o <<" ">> \o last.image.description, "combined")
       /\ (last.query # None /\ last.image.present /\ ~Described)
            => ResolvedAs(last.query, "text_fallback")
       /\ (last.query = None /\ Described)
            => ResolvedAs(last.image.description, "image")

\* ---------------------------------------------- claims: the helpers

\* a price text that is a dollar sign followed by 5 or more digits and
\* nothing else, denoting more than 50000
AboveBound(case) ==
  /\ case.match
  /\ case.pre = <<>> /\ case.spaces = <<>>
  /\ case.group = <<>> /\ case.fraction = <<>>
  /\ Len(case.lead.text) >= 5
  /\ case.lead.all > 50000

\* C16: price extraction yields 0 for a text whose dollar amount exceeds the
\* bound of 50000: "$99999", and any '$' followed by 5 or more digits without
\* separators that denote more than 50000, give 0.
C16_AboveBoundIsZero ==
  (applied.f = "_extract_price" /\ AboveBound(applied.arg)) => applied.value = 0

\* C17: for every input (absent, empty, without a currency match, any text)
\* _extract_price returns 0 or the value of the first currency match, which
\* then lies in [0.01, 50000] (1 to 5000000 cents); "$19.99" gives 19.99,
\* "$1,234.50" gives 1234.50, "free" and "" give 0, and a parsed amount of
\* 0.00 gives 0.
C17_FirstMatchOrZero ==
  (applied.f = "_extract_price")
    => /\ applied.value = 0 \/ (1 <= applied.value /\ applied.value <= 5000000)
       /\ applied.value =
            IF applied.arg.match /\ 1 <= applied.arg.first
                 /\ applied.arg.first <= 5000000
              THEN applied.arg.first ELSE 0
       /\ applied.arg.text = <<"$","1","9",".","9","9">> => applied.value = 1999
       /\ applied.arg.text = <<"$","1",",","2","3","4",".","5","0">>
            => applied.value = 123450
       /\ applied.arg.text \in {None, <<"f","r","e","e">>} => applied.value = 0
       /\ applied.arg.text = <<"$","0",".","0","0">> => applied.value = 0

\* the price of a text with a group of thousands and cents, after text
\* without a match, has been extracted
C17_Witness ==
  /\ applied.f = "_extract_price"
  /\ applied.arg.text = <<"$"," ","x"," ","$"," ","1",",","2","3","4",".","5","0">>
  /\ applied.value = 123450

\* the base price of a query with or without an electronics and an apparel
\* word, electronics first
BaseOf(query) ==
  IF query.electronics THEN 400 ELSE IF query.apparel THEN 35 ELSE 25

\* C18: estimate(query, rankIndex) is base * (1 + 0.15 * rankIndex) rounded
\* to cents, where base is 400 if the lower-cased query holds an electronics
\* keyword, else 35 if it holds an apparel keyword, else 25; so
\* estimate("gaming laptop", 0) = 400.00 and estimate("gaming laptop", 2) =
\* 520.00, and for a fixed query the value grows strictly with rankIndex.
C18_EstimateByCategory ==
  (applied.f = "_generate_realistic_price")
    => /\ applied.value
            = BaseOf(applied.arg.query) * (100 + 15 * applied.arg.index)
       /\ (applied.arg.query.text = <<"g","a","m","i","n","g"," ","l","a","p","t","o","p">>
             /\ applied.arg.index = 0) => applied.value = 40000
       /\ (applied.arg.query.text = <<"g","a","m","i","n","g"," ","l","a","p","t","o","p">>
             /\ applied.arg.index = 2) => applied.value = 52000
       /\ applied.arg.index > 0
            => applied.value > _generate_realistic_price(applied.arg.query.text,
                                                         applied.arg.index - 1)

\* the estimate of a query with an electronics and an apparel word, at an
\* index above 0, has been computed
C18_Witness ==
  /\ applied.f = "_generate_realistic_price"
  /\ applied.arg.query.text = <<"l","a","p","t","o","p"," ","s","h","i","r","t">>
  /\ applied.arg.index = 2
  /\ applied.value = 52000

\* C19: isBlacklisted(storeName) is true exactly when the lower-cased store
\* name contains a denylist entry as a substring; an empty or absent store
\* name is never blacklisted ("AliExpress Store" is, "Best Buy" and "" are
\* not).
C19_BlacklistedIffContains ==
  (applied.f = "_is_blacklisted_store")
    => /\ applied.value = applied.arg.listed
       /\ applied.value = Denylisted(applied.arg.text)
       /\ applied.arg.text
            = <<"A","l","i","E","x","p","r","e","s","s"," ","S","t","o","r","e">>
            => applied.value = TRUE
       /\ applied.arg.text \in {None, <<"B","e","s","t"," ","B","u","y">>}
            => applied.value = FALSE

\* a store name that holds a denylist entry in upper case inside a longer
\* name has been checked
C19_Witness ==
  /\ applied.f = "_is_blacklisted_store"
  /\ applied.arg.text = <<"M","y"," ","T","E","M","U","b","o","n","e">>
  /\ applied.value = TRUE

\* ---------------------------------------------- claims: the boundary

\* the request sends no usable text: none, or only white space
NoText(form) == \A i \in DOMAIN form.query : form.query[i] \in SpaceChars

\* the request sends no image bytes
NoBytes(form) == ~form.file \/ form.size = 0

\* the request fails validation: neither text nor image, or an oversized image
FailsValidation(form) ==
  (NoText(form) /\ NoBytes(form)) \/ (form.file /\ form.size > max_image_bytes)

\* C20: at api_search, for a logged-in session, a request with neither text
\* nor image, or with an oversized image, gets an error response, and
\* search_products is not called: the cache, the provider requests, the record
\* of the latest call and the session's last_search stay as they were; every
\* other request gets a success response with a list of products, whatever
\* the provider and the vision model do, also when search_products raises
C20_ErrorOnlyOnValidation ==
  [][IsCall =>
       IF FailsValidation(reply'.request)
         THEN /\ ~reply'.success
              /\ reply'.status = 400
              /\ UNCHANGED <<cache, requests, last, session>>
         ELSE /\ reply'.success
              /\ reply'.status = 200
              /\ reply'.products # <<>>
              /\ reply'.products = session'.last_search.products]_vars

\* search_products raised on a request with a text, and the caller was given
\* the examples as a success
C20_Witness ==
  /\ last.path = "raised"
  /\ reply.request.query = Phone
  /\ reply.success
  /\ Len(reply.products) = 3

\* ------------------------------------- claims: the fields of a listing

\* C21: every listing emitted by _process_results has a title and a store of
\* at most 120 characters, also when the raw value holds characters that
\* html.escape rewrites
C21_TitleStoreAtMost120 ==
  \A i \in DOMAIN products :
    Len(products[i].title) <= 120 /\ Len(products[i].source) <= 120

\* listing p carries the source tag tag and the user text text
Carries(p, tag, text) ==
  /\ "search_source" \in DOMAIN p /\ p.search_source = tag
  /\ "original_query" \in DOMAIN p /\ p.original_query = text

\* C22: every listing returned by a search_products call carries the source
\* tag of that call and that call's raw user text, or the placeholder when the
\* call had no text, on every return path
C22_MetadataOfTheCall ==
  last.path \notin {"none", "raised"} =>
    \A i \in DOMAIN last.result :
      Carries(last.result[i], ResolveQuery(last.query, last.image).search_source,
              IF last.query # None THEN last.query ELSE <<"i","m","a","g","e","n">>)

\* ------------------------------------------- claims: the cache key

\* the lower-cased resolved query of the call that built the listings data
\* (a text-only call: its raw text is its resolved query)
BuiltFor(data) == Lower(Strip(data[1].original_query))

\* the lower-cased resolved query of the call recorded in last'
LowerOfCall == Lower(Strip(ResolveQuery(last'.query, last'.image).final_query))

\* C23: the cache is keyed by the lower-cased resolved query: a search whose
\* lower-cased resolved query is that of a cached entry less than 180 seconds
\* old uses that entry (no provider request, no second entry), whatever the
\* letter case of the two texts; and searches whose lower-cased resolved
\* queries differ never share an entry: a search is served only listings
\* built for its own lower-cased query, and the entries of the cache are
\* built for different queries
C23_KeyedByLowerCase ==
  [][ IsCall =>
        /\ (\E i \in DOMAIN cache :
              /\ BuiltFor(cache[i].data) = LowerOfCall
              /\ now - cache[i].timestamp < 180)
             => (last'.requests = 0 /\ cache' = cache)
        /\ BuiltFor(last'.result) = LowerOfCall
        /\ \A i, j \in DOMAIN cache' :
             i # j => BuiltFor(cache'[i].data) # BuiltFor(cache'[j].data) ]_vars

\* --------------------------------------------------- claims: the link

\* the raw items of the answer the latest call was given, when it is a list
AnswerItems ==
  IF last.path = "miss" /\ last.response # None /\ last.response.ok
     /\ "shopping_results" \in DOMAIN last.response.json
    THEN last.response.json["shopping_results"]
    ELSE <<>>

\* the link the claim gives a raw item that has a title
ClaimedLink(item) ==
  IF "product_link" \in DOMAIN item /\ item.product_link # <<>> THEN item.product_link
  ELSE IF "link" \in DOMAIN item /\ item.link # <<>> THEN item.link
  ELSE <<"h","t","t","p","s",":","/","/","w","w","w",".","g","o","o","g","l","e",".",
         "c","o","m","/","s","e","a","r","c","h","?","t","b","m","=","s","h","o","p",
         "&","q","=">> \o quote_plus(Prefix(item.title, 50))

\* C24: every listing returned by search_products, or held in the cache, has
\* a non-empty link, which is not the placeholder '#' (every listing has a
\* title); a listing built from a raw item has the item's product link if
\* there is one, else its generic link, else the search URL constructed from
\* the first 50 characters of the title
C24_LinkNeverEmpty ==
  /\ \A p \in KnownListings : p.link # <<>> /\ p.link # <<"#">>
  /\ \A i \in DOMAIN AnswerItems : \A j \in DOMAIN last.result :
       BuiltFrom(last.result[j], AnswerItems[i])
         => last.result[j].link = ClaimedLink(AnswerItems[i])

\* an answer with an item of each kind was processed: one listing has the
\* product link, one the generic link, one the constructed search URL
C24_Witness ==
  /\ last.path = "miss"
  /\ last.response = RUnsorted
  /\ \E j \in DOMAIN last.result : last.result[j].link = ItemClean.product_link
  /\ \E j \in DOMAIN last.result : last.result[j].link = ItemDear.link
  /\ \E j \in DOMAIN last.result :
       /\ BuiltFrom(last.result[j], ItemOver)
       /\ last.result[j].link = ClaimedLink(ItemOver)

\* ------------------------------------- claims: the normalizer's loop

\* the normalizer accepts the raw item: an object of a store not denylisted,
\* with a title of at least 3 characters
Acceptable(item) ==
  /\ item # None
  /\ IsDict(item)
  /\ "source" \in DOMAIN item => ~Denylisted(item.source)
  /\ "title" \in DOMAIN item
  /\ Len(item.title) >= 3

\* the positions of the acceptable raw items among the first n
AcceptablePositions(n) == {i \in DOMAIN RawItems : i <= n /\ Acceptable(RawItems[i])}

\* C25: the normalizer goes through the raw items of the answer in provider
\* order and stops only once 3 listings are accepted: acceptable items that
\* come after rejected ones are still emitted, up to 3, so the number of
\* listings is the number of acceptable raw items, or 3 when there are more
C25_EveryItemConsidered ==
  Len(products) = IF Cardinality(AcceptablePositions(Len(RawItems))) < 3
                    THEN Cardinality(AcceptablePositions(Len(RawItems)))
                    ELSE 3

\* ------------------------------------- claims: what a call leaves alone

\* C26: a search whose resolved query is absent or has fewer than 2
\* characters after trimming, and any search made without a provider
\* credential, returns the example set, issues no provider request and
\* leaves the cache as it was
C26_ExamplesWithoutProvider ==
  [][ (IsCall /\ (~CallNotShort \/ ~api_key))
        => /\ requests' = requests
           /\ cache' = cache
           /\ Len(last'.result) = 3
           /\ \A i \in 1..3 : IsExample(last'.result[i]) ]_vars

\* a call with a text too short has returned the examples, the cache holding
\* an entry of an earlier search
C26_Witness ==
  /\ last.query = <<" ","a"," ">>
  /\ cache # <<>>
  /\ last.requests = 0
  /\ Len(last.result) = 3

\* C27: a cache hit leaves the cache unchanged: the keys, every entry's list
\* and every entry's insertion timestamp are the same after the call as
\* before (reads do not extend the TTL), and nothing is evicted; the hit
\* issues no provider request
C27_HitLeavesCache ==
  [][ (IsCall /\ CallFindsFresh)
        => /\ cache' = cache
           /\ requests' = requests
           /\ last'.result = CacheEntry(cache, KeyOfCall).data ]_vars

\* a hit was served from a full cache, on an entry inserted earlier
C27_Witness ==
  /\ last.path = "hit"
  /\ Len(cache) = 10
  /\ \E i \in DOMAIN cache : cache[i].data = last.result /\ cache[i].timestamp < now

\* the position of the k-th acceptable raw item among the first 3
NthAcceptable(k) ==
  CHOOSE i \in AcceptablePositions(3) :
    Cardinality({j \in AcceptablePositions(3) : j <= i}) = k

\* C28: a malformed raw item (empty, not an object so that its processing
\* raises, without a title or with one shorter than 3 characters) is skipped
\* and the batch goes on: of the raw items considered, the first 3, every
\* acceptable one is normalized, in order, and a skipped item counts neither
\* toward the number of listings nor toward the rank index of a fallback
\* price
C28_MalformedSkipped ==
  /\ Len(products) = Cardinality(AcceptablePositions(3))
  /\ \A k \in DOMAIN products : \A item \in {RawItems[NthAcceptable(k)]} :
       /\ BuiltFrom(products[k], item)
       /\ _extract_price(Get(item, "price", None)) = 0
            => products[k].price_numeric = _generate_realistic_price(item.title, k - 1)

\* an answer of a JSON string, an item without a title and an item without
\* a price: the third is the only listing, priced at rank index 0
C28_Witness ==
  /\ Len(RawItems) = 3
  /\ RawItems[1] = ItemString
  /\ RawItems[2] = ItemUntitled
  /\ RawItems[3] = ItemNoPrice
  /\ Len(products) = 1
  /\ products[1].price_numeric = 2500

\* C29: when the price field of an accepted raw item extracts to 0, the
\* listing's price_numeric is the fallback estimate for the raw title at rank
\* index = the number of listings accepted before it from this answer, and
\* its display price is '$' and that value with two decimals; when the
\* extraction succeeds, price_numeric is the extracted value and the display
\* price is the provider's string
C29_FallbackPriceAtRank ==
  \A k \in DOMAIN products : \A item \in {RawItems[NthAcceptable(k)]} :
    IF _extract_price(Get(item, "price", None)) = 0
      THEN /\ products[k].price_numeric = _generate_realistic_price(item.title, k - 1)
           /\ products[k].price = FormatPrice(products[k].price_numeric)
      ELSE /\ products[k].price_numeric = _extract_price(item.price)
           /\ products[k].price = item.price

\* a denylisted item, a priced one and one without a price: the second
\* listing has the estimate of rank index 1 (25 * 1.15), not of position 2
C29_Witness ==
  /\ Len(RawItems) = 3
  /\ RawItems[1] = ItemBlocked
  /\ RawItems[2] = ItemClean
  /\ RawItems[3] = ItemNoPrice
  /\ Len(products) = 2
  /\ products[1].price_numeric = 1999
  /\ products[1].price = <<"$","1","9",".","9","9">>
  /\ products[2].price_numeric = 2875
  /\ products[2].price = <<"$","2","8",".","7","5">>

\* ------------------------------------------ claims: the size of a list

\* a list of 1 to 3 listings, exactly 3 when they are the examples
OneToThree(data) ==
  /\ Len(data) \in 1..3
  /\ (\A i \in DOMAIN data : IsExample(data[i])) => Len(data) = 3

\* C30: every list returned by search_products is non-empty and has at most
\* 3 listings (1 to 3 from the provider, or exactly 3 examples), and every
\* list stored in the cache satisfies the same bound and is sorted ascending
\* by price_numeric
C30_OneToThreeListings ==
  /\ last.path \notin {"none", "raised"} => OneToThree(last.result)
  /\ \A i \in DOMAIN cache : OneToThree(cache[i].data) /\ SortedByPrice(cache[i].data)

\* a provider answer gave 3 listings, returned and cached in price order,
\* which is not the provider's order
C30_Witness ==
  /\ last.path = "miss"
  /\ last.response = RUnsorted
  /\ Len(last.result) = 3
  /\ last.result[1].price_numeric < last.result[3].price_numeric
  /\ last.result[3].title = _clean_text(ItemDear.title)
  /\ \E i \in DOMAIN cache : cache[i].data = last.result

\* ------------------------------------- claims: the cached examples

\* the latest call had a credential, asked the provider, and the request
\* failed or yielded no listing
LastFoundNothing == api_key /\ last.path = "miss" /\ ZeroListings(last.response)

\* C31: with a credential, when the provider request fails or yields no
\* listing, the substituted example set is stored in the cache under the
\* query's key; an identical search made while that entry is in the cache
\* and less than 180 seconds old is served that example set from the cache
\* and issues no provider request
C31_ExamplesAreCached ==
  [][ IsCall =>
        /\ (api_key /\ last'.path = "miss" /\ ZeroListings(last'.response))
             => /\ KeyOfCall \in CacheKeys(cache')
                /\ CacheEntry(cache', KeyOfCall).data = last'.result
                /\ Len(last'.result) = 3
                /\ \A i \in 1..3 : IsExample(last'.result[i])
        /\ ( /\ LastFoundNothing
             /\ last'.query = last.query /\ last'.image = last.image
             /\ KeyOfCall \in CacheKeys(cache)
             /\ now - CacheEntry(cache, KeyOfCall).timestamp < 180 )
             => /\ requests' = requests
                /\ last'.result = last.result
                /\ cache' = cache ]_vars

\* after a provider request that yielded nothing a search of the same query, 179 seconds after
\* the store, was served the 3 examples from the cache
C31_Witness ==
  /\ api_key
  /\ last.path = "hit"
  /\ last.query = Phone
  /\ requests = 1
  /\ Len(last.result) = 3
  /\ \A i \in 1..3 : IsExample(last.result[i])
  /\ \E i \in DOMAIN cache :
       cache[i].data = last.result /\ last.t - cache[i].timestamp = 179

\* ------------------------------------------------- claims: the session

\* the routes behind login_required
GatedRoutes == {"search_page", "api_search", "results_page"}

\* the step is a request to api_search that got to search_products: it was
\* neither redirected nor refused on its form, or it left a trace in the
\* finder
ReachesSearch ==
  \/ reply'.request.route = "api_search" /\ reply'.status \notin {302, 400}
  \/ <<cache, requests, last>>' # <<cache, requests, last>>

\* the step is a request to a login-required route that arrives more than
\* 1200 seconds after the previous request of its session
ArrivesIdle ==
  /\ reply'.request.route \in GatedRoutes
  /\ session.timestamp >= 0
  /\ now - session.timestamp > max_idle

\* C32: a request reaches search_products only from a session that has a
\* user_id and a login time at most 7200 seconds old; and a request to a
\* login-required route arriving more than 1200 seconds after the session's
\* previous request finds the session cleared, is redirected to the login page
\* and searches nothing (cache, provider requests and the finder untouched).
C32_SessionGating ==
  [][IsCall =>
       /\ ReachesSearch =>
            /\ session.user_id # None
            /\ session.login_time >= 0
            /\ now - session.login_time <= max_login_age
       /\ ArrivesIdle =>
            /\ session' = [NoSession EXCEPT !.timestamp = now]
            /\ reply' = ErrorReply(reply'.request, 302, SessionExpired)
            /\ UNCHANGED <<cache, requests, last>>]_vars

\* a search served to a session whose login is exactly 7200 seconds old at
\* the request, kept alive until then by requests 1200 seconds apart
C32_Witness ==
  /\ reply.request.route = "api_search"
  /\ reply.success
  /\ last.requests = 1
  /\ session.timestamp = last.t
  /\ session.timestamp - session.login_time = max_login_age

====
